---- MODULE Spec2Model ----
(***************************************************************************)
(* A model of umbracle/go-evm: the transactional state overlay (Txn), the  *)
(* transition driver (Transition.Write and the frames it runs through      *)
(* applyCall / applyCreate) and the opcode handlers of the interpreter     *)
(* that talk to the Host.                                                   *)
(*                                                                         *)
(* Abstractions.  The operand stack and the bytecode of a running frame     *)
(* are not represented in the driver model: the bytecode being arbitrary,  *)
(* every dispatch step picks an opcode and the words it pops from small    *)
(* sets.  Addresses, storage keys and byte strings come from finite sets.  *)
(* uint64 arithmetic is kept modular, on words of WordBits bits, because   *)
(* the model checker's integers are narrower than 64 bits.                 *)
(***************************************************************************)
EXTENDS Integers, Sequences, FiniteSets, TLC

\* ------------------------------------------------------------------------
\* Bounds of the model
\* ------------------------------------------------------------------------

\* width of the machine word that stands for uint64 / int64
WordBits == 24

\* number of dispatch steps (opcodes) executed per message
MaxSteps == 2

\* number of frames that may be live at once
MaxFrames == 2

\* ------------------------------------------------------------------------
\* Machine words
\* ------------------------------------------------------------------------

RECURSIVE Pow2(_)
Pow2(n) == IF n = 0 THEN 1 ELSE 2 * Pow2(n - 1)

\* uint64 modulus
U64 == Pow2(WordBits)

MaxU64 == U64 - 1

\* uint64 wrap-around of an integer
u64(x) == x % U64

\* int64(x) of a uint64 bit pattern
int64(x) == IF x >= U64 \div 2 THEN x - U64 ELSE x

Min(a, b) == IF a < b THEN a ELSE b

\* ------------------------------------------------------------------------
\* Revisions (evmc.Revision, ordered)
\* ------------------------------------------------------------------------

Frontier == "Frontier"
Homestead == "Homestead"
TangerineWhistle == "TangerineWhistle"
SpuriousDragon == "SpuriousDragon"
Byzantium == "Byzantium"
Constantinople == "Constantinople"
Petersburg == "Petersburg"
Istanbul == "Istanbul"

RevisionOrder == <<Frontier, Homestead, TangerineWhistle, SpuriousDragon,
                   Byzantium, Constantinople, Petersburg, Istanbul>>

RevOrd(r) == CHOOSE i \in 1..Len(RevisionOrder) : RevisionOrder[i] = r

\* Transition.isRevision / Txn.isRevision / state.isRevision
isRevisionOf(cur, r) == RevOrd(r) <= RevOrd(cur)

\* ------------------------------------------------------------------------
\* Addresses, keys, byte strings
\* ------------------------------------------------------------------------

\* S: externally owned sender; A: contract with code and storage;
\* N: address of a contract still to be created; X: an account that already
\* has a nonce; CB: the coinbase
OrdinaryAddrs == {"S", "A", "N", "X", "CB"}

\* the addresses of the precompiled contracts: nineteen zero bytes and the
\* number of the contract
addr1 == "0x01"
addr2 == "0x02"
addr3 == "0x03"
addr4 == "0x04"
addr5 == "0x05"
addr6 == "0x06"
addr7 == "0x07"
addr8 == "0x08"
addr9 == "0x09"

\* the keys of the map precompiledContracts after init()
precompiledContracts == {addr1, addr2, addr3, addr4, addr5, addr6, addr7, addr8, addr9}

Addrs == OrdinaryAddrs \cup precompiledContracts

Coinbase == "CB"

Keys == {"k1"}

\* value of a storage slot that is not in the object's storage overlay
Absent == -1

NoBytes == <<>>

CodeA == <<91, 0>>

\* createAddress / createAddress2 map into the finite address space: the
\* addresses derived for the sender and by CREATE2 fall on the fresh address
\* N, those derived by CREATE for a contract on the existing account X
createAddress(addr, nonce) == IF addr = "S" THEN "N" ELSE "X"

createAddress2(addr, salt, init) == "N"

\* ------------------------------------------------------------------------
\* Snapshot backend (the committed world state)
\* ------------------------------------------------------------------------

SenderFunds == 400000

EmptyRoot == "EmptyRootHash"
BackendRoot == "root"

NoAccount == [present |-> FALSE, nonce |-> 0, balance |-> 0, root |-> EmptyRoot, code |-> NoBytes]

BackendAccounts ==
    [a \in Addrs |->
        CASE a = "S" -> [present |-> TRUE, nonce |-> 0, balance |-> SenderFunds, root |-> BackendRoot, code |-> NoBytes]
          [] a = "A" -> [present |-> TRUE, nonce |-> 1, balance |-> 1, root |-> BackendRoot, code |-> CodeA]
          [] a = "X" -> [present |-> TRUE, nonce |-> 1, balance |-> 0, root |-> BackendRoot, code |-> NoBytes]
          [] OTHER -> NoAccount]

\* Snapshot.GetAccount
SnapshotGetAccount(a) == BackendAccounts[a]

\* Snapshot.GetStorage
SnapshotGetStorage(a, root, k) ==
    IF root = EmptyRoot THEN 0
    ELSE IF a = "A" /\ k = "k1" THEN 1 ELSE 0

\* ------------------------------------------------------------------------
\* State objects of the overlay
\* ------------------------------------------------------------------------

NoStorage == [k \in Keys |-> Absent]

\* "no object": what getStateObject returns with exists = false
NoObj == [present |-> FALSE, nonce |-> 0, balance |-> 0, root |-> EmptyRoot, code |-> NoBytes,
          suicide |-> FALSE, deleted |-> FALSE, dirtyCode |-> FALSE, storage |-> NoStorage]

\* the fresh object upsertAccount / CreateAccount / newStateObject build
newStateObject == [NoObj EXCEPT !.present = TRUE]

\* stateObject.Empty
Empty(o) == o.nonce = 0 /\ o.balance = 0 /\ o.code = NoBytes

EmptyTxn == [objs |-> [a \in Addrs |-> NoObj], logs |-> <<>>, refund |-> 0]

\* Txn.getStateObject
getStateObject(t, a) ==
    LET Loaded(acc) ==
            IF acc.present
            THEN [NoObj EXCEPT !.present = TRUE, !.nonce = acc.nonce, !.balance = acc.balance,
                               !.root = acc.root, !.code = acc.code]
            ELSE NoObj
    IN IF t.objs[a].present
       THEN IF t.objs[a].deleted THEN NoObj ELSE t.objs[a]
       ELSE Loaded(SnapshotGetAccount(a))

\* Txn.upsertAccount
upsertAccount(t, a, create, F(_)) ==
    LET Store(object) == IF object.present THEN [t EXCEPT !.objs[a] = F(object)] ELSE t
        Found(found) == Store(IF ~found.present /\ create THEN newStateObject ELSE found)
    IN Found(getStateObject(t, a))

\* Txn.GetBalance
GetBalance(t, a) == getStateObject(t, a).balance

\* Txn.GetNonce
GetNonce(t, a) == getStateObject(t, a).nonce

\* Txn.GetCode
GetCode(t, a) == getStateObject(t, a).code

\* Txn.empty
empty(t, a) ==
    LET IsEmpty(o) == IF ~o.present THEN TRUE ELSE Empty(o) IN IsEmpty(getStateObject(t, a))

\* Txn.AccountExists
AccountExists(t, r, a) ==
    IF isRevisionOf(r, SpuriousDragon) THEN ~empty(t, a) ELSE getStateObject(t, a).present

\* Txn.HasSuicided
HasSuicided(t, a) == LET Marked(o) == o.present /\ o.suicide IN Marked(getStateObject(t, a))

\* Txn.GetRefund
GetRefund(t) == t.refund

\* Txn.AddBalance
AddBalance(t, a, amount) ==
    LET F(o) == [o EXCEPT !.balance = o.balance + amount] IN upsertAccount(t, a, TRUE, F)

\* Txn.SubBalance: [ok, txn]
SubBalance(t, a, amount) ==
    IF amount = 0 THEN [ok |-> TRUE, txn |-> t]
    ELSE IF GetBalance(t, a) < amount THEN [ok |-> FALSE, txn |-> t]
    ELSE LET F(o) == [o EXCEPT !.balance = o.balance - amount]
         IN [ok |-> TRUE, txn |-> upsertAccount(t, a, TRUE, F)]

\* an increment that loads the account and leaves its nonce
IncrNonceIdle(t, a) == LET F(o) == o IN upsertAccount(t, a, TRUE, F)

\* Txn.IncrNonce
IncrNonce(t, a) == LET F(o) == [o EXCEPT !.nonce = u64(o.nonce + 1)] IN upsertAccount(t, a, TRUE, F)

\* Txn.SetCode
SetCode(t, a, code) ==
    LET F(o) == [o EXCEPT !.code = code, !.dirtyCode = TRUE] IN upsertAccount(t, a, TRUE, F)

\* Txn.TouchAccount
TouchAccount(t, a) == LET F(o) == o IN upsertAccount(t, a, TRUE, F)

\* Txn.CreateAccount
CreateAccount(t, a) ==
    LET Replace(prev) ==
            [t EXCEPT !.objs[a] = [newStateObject EXCEPT !.balance = IF prev.present THEN prev.balance ELSE 0]]
    IN Replace(getStateObject(t, a))

\* Txn.Suicide
Suicide(t, a) ==
    LET F(o) == [o EXCEPT !.suicide = TRUE, !.balance = 0] IN upsertAccount(t, a, FALSE, F)

\* Txn.AddRefund
AddRefund(t, gas) == [t EXCEPT !.refund = u64(GetRefund(t) + gas)]

\* Txn.SubRefund
SubRefund(t, gas) == [t EXCEPT !.refund = u64(GetRefund(t) - gas + U64)]

\* Txn.EmitLog
EmitLog(t, a, topics, data) ==
    [t EXCEPT !.logs = Append(t.logs, [address |-> a, topics |-> topics, data |-> data])]

\* Txn.GetState
GetState(t, a, k) ==
    LET Read(o) == IF ~o.present THEN 0
                   ELSE IF o.storage[k] # Absent THEN o.storage[k]
                   ELSE SnapshotGetStorage(a, o.root, k)
    IN Read(getStateObject(t, a))

\* a committed read that looks at the slots written in the overlay
GetCommittedStateOverlay(t, a, k) == GetState(t, a, k)

\* Txn.GetCommittedState
GetCommittedState(t, a, k) ==
    LET Read(o) == IF ~o.present THEN 0 ELSE SnapshotGetStorage(a, o.root, k)
    IN Read(getStateObject(t, a))

\* Txn.SetState
SetState(t, a, k, v) ==
    LET F(o) == [o EXCEPT !.storage[k] = v] IN upsertAccount(t, a, TRUE, F)

\* storage statuses (evmc.StorageStatus)
StorageUnchanged == "StorageUnchanged"
StorageModified == "StorageModified"
StorageModifiedAgain == "StorageModifiedAgain"
StorageAdded == "StorageAdded"
StorageDeleted == "StorageDeleted"

\* a set_state that handles the status of the write as the one of a slot
\* written for the first time
SetStorageNeverAgain(t, r, a, k, value) ==
    LET Written(oldValue, t1) ==
            IF oldValue = value THEN [status |-> StorageUnchanged, txn |-> t]
            ELSE IF oldValue = 0 THEN [status |-> StorageAdded, txn |-> t1]
            ELSE IF value = 0 THEN [status |-> StorageDeleted, txn |-> AddRefund(t1, 15000)]
            ELSE [status |-> StorageModified, txn |-> t1]
    IN Written(GetState(t, a, k), SetState(t, a, k, value))

\* a set_state that writes the slot again when it is given the current value
SetStorageRewrites(t, r, a, k, value) ==
    IF GetState(t, a, k) = value
    THEN [status |-> StorageUnchanged, txn |-> SetState(t, a, k, value)]
    ELSE SetStorageNeverAgain(t, r, a, k, value)

\* Txn.SetStorage: [status, txn]
SetStorage(t, r, a, k, value) ==
    LET isIstanbul == isRevisionOf(r, Istanbul)
        legacyGasMetering ==
            ~isIstanbul /\ (isRevisionOf(r, Petersburg) \/ ~isRevisionOf(r, Constantinople))
        \* the net-metering refunds of a slot written again; t2 is the overlay
        \* after the refund for clearing or restoring the slot
        Again(original, t2) ==
            IF original = value
            THEN IF original = 0
                 THEN AddRefund(t2, IF isIstanbul THEN 19200 ELSE 19800)
                 ELSE AddRefund(t2, IF isIstanbul THEN 4200 ELSE 4800)
            ELSE t2
        \* oldValue = current: the value read before the write; t1: the overlay
        \* after SetState
        Written(oldValue, original, t1) ==
            LET current == oldValue
            IN IF oldValue = value THEN [status |-> StorageUnchanged, txn |-> t]
               ELSE IF legacyGasMetering
               THEN IF oldValue = 0 THEN [status |-> StorageAdded, txn |-> t1]
                    ELSE IF value = 0 THEN [status |-> StorageDeleted, txn |-> AddRefund(t1, 15000)]
                    ELSE [status |-> StorageModified, txn |-> t1]
               ELSE IF original = current
               THEN IF original = 0 THEN [status |-> StorageAdded, txn |-> t1]
                    ELSE IF value = 0 THEN [status |-> StorageDeleted, txn |-> AddRefund(t1, 15000)]
                    ELSE [status |-> StorageModified, txn |-> t1]
               ELSE [status |-> StorageModifiedAgain,
                     txn |-> Again(original,
                                   IF original # 0
                                   THEN IF current = 0 THEN SubRefund(t1, 15000)
                                        ELSE IF value = 0 THEN AddRefund(t1, 15000) ELSE t1
                                   ELSE t1)]
    IN Written(GetState(t, a, k), GetCommittedState(t, a, k), SetState(t, a, k, value))

\* a Logs that leaves the list in the overlay
LogsKept(t) == [logs |-> t.logs, txn |-> t]

\* Txn.Logs: the in-flight log list is handed out and removed from the overlay
Logs(t) == [logs |-> t.logs, txn |-> [t EXCEPT !.logs = <<>>]]

\* a sweep that marks the self-destructed objects only
CleanDeleteObjectsSuicided(t, deleteEmptyObjects) ==
    [t EXCEPT !.objs = [a \in Addrs |->
                           LET o == t.objs[a]
                           IN IF o.present /\ o.suicide THEN [o EXCEPT !.deleted = TRUE] ELSE o],
              !.refund = 0]

\* Txn.CleanDeleteObjects
CleanDeleteObjects(t, deleteEmptyObjects) ==
    [t EXCEPT !.objs = [a \in Addrs |->
                           LET o == t.objs[a]
                           IN IF o.present /\ (o.suicide \/ (Empty(o) /\ deleteEmptyObjects))
                              THEN [o EXCEPT !.deleted = TRUE]
                              ELSE o],
              !.refund = 0]

\* a Snapshot that keeps the last tree only
SnapshotLastOnly(t, snaps) == [id |-> 0, snapshots |-> <<t>>]

\* Txn.Snapshot: [id, snapshots]
Snapshot(t, snaps) == [id |-> Len(snaps), snapshots |-> Append(snaps, t)]

\* a revert that leaves the live overlay where it is
RevertKeepsLive(t, snaps, id) == t

\* Txn.RevertToSnapshot (ids are 0-based in the source)
RevertToSnapshot(t, snaps, id) == snaps[id + 1]

\* ------------------------------------------------------------------------
\* Transition driver: pre-check and post-check
\* ------------------------------------------------------------------------

TxGas == 21000

TxGasContractCreation == 53000

spuriousDragonMaxCodeSize == 24576

NoTo == "nil"

\* Message.IsContractCreation
IsContractCreation(m) == m.to = NoTo

\* number of zero bytes of a payload
RECURSIVE Zeros(_)
Zeros(b) == IF b = <<>> THEN 0 ELSE (IF b[1] = 0 THEN 1 ELSE 0) + Zeros(Tail(b))

ErrNone == "none"
ErrOverflowNonZeros == "overflow in non-zeros intrinsic gas calculation"
ErrOverflowZeros == "overflow in zeros intrinsic gas calculation"
ErrIncorrectNonce == "incorrect nonce"
ErrGasFunds == "not enough funds to cover gas costs"
ErrIntrinsicGas == "not enough gas supplied for intrinsic gas costs"
errNotEnoughFunds == "not enough funds for transfer with given value"
ErrCollision == "contract address collision"
ErrMaxCodeSize == "evm: max code size exceeded"
ErrCodeStoreOutOfGas == "contract creation code storage out of gas"

\* TransactionGasCost: [cost, err]
TransactionGasCost(m, isHomestead, isIstanbul) ==
    LET base == IF IsContractCreation(m) /\ isHomestead THEN TxGasContractCreation ELSE TxGas
        payload == m.input
        zeros == Zeros(payload)
        nonZeros == Len(payload) - zeros
        nonZeroCost == IF isIstanbul THEN 16 ELSE 68
        cost1 == base + nonZeros * nonZeroCost
        cost2 == cost1 + zeros * 4
    IN IF Len(payload) = 0 THEN [cost |-> base, err |-> ErrNone]
       ELSE IF (MaxU64 - base) \div nonZeroCost < nonZeros THEN [cost |-> 0, err |-> ErrOverflowNonZeros]
       ELSE IF (MaxU64 - cost1) \div 4 < zeros THEN [cost |-> 0, err |-> ErrOverflowZeros]
       ELSE [cost |-> cost2, err |-> ErrNone]

\* Transition.preCheck: [err, txn, msg]
preCheck(t, r, m) ==
    LET upfrontGasCost == m.gasPrice * m.gas
        \* sub: what SubBalance returned; intrinsic: what TransactionGasCost returned
        Priced(sub, intrinsic) ==
            LET gasLeft == u64(m.gas - intrinsic.cost + U64)
            IN IF intrinsic.err # ErrNone THEN [err |-> intrinsic.err, txn |-> sub.txn, msg |-> m]
               ELSE IF gasLeft > m.gas THEN [err |-> ErrIntrinsicGas, txn |-> sub.txn, msg |-> m]
               ELSE IF GetBalance(sub.txn, m.from) < m.value
               THEN [err |-> errNotEnoughFunds, txn |-> sub.txn, msg |-> m]
               ELSE [err |-> ErrNone, txn |-> sub.txn, msg |-> [m EXCEPT !.gas = gasLeft]]
        Charged(sub) ==
            IF ~sub.ok THEN [err |-> ErrGasFunds, txn |-> t, msg |-> m]
            ELSE Priced(sub, TransactionGasCost(m, isRevisionOf(r, Homestead), isRevisionOf(r, Istanbul)))
    IN IF GetNonce(t, m.from) # m.nonce THEN [err |-> ErrIncorrectNonce, txn |-> t, msg |-> m]
       ELSE Charged(SubBalance(t, m.from, upfrontGasCost))

\* Transition.postCheck: [txn, msg, gasLeft, refund, gasUsed, remaining, coinbaseFee]
postCheck(t, r, m, outGasLeft) ==
    LET \* gas: msg.Gas with the intrinsic gas added back
        Settle(gas) ==
            LET gasUsed0 == u64(gas - outGasLeft + U64)
                maxRefund == gasUsed0 \div 2
                refund == IF GetRefund(t) > maxRefund THEN maxRefund ELSE GetRefund(t)
                gasLeft == u64(outGasLeft + refund)
                gasUsed == u64(gasUsed0 - refund + U64)
                remaining == gasLeft * m.gasPrice
                coinbaseFee == gasUsed * m.gasPrice
                t1 == AddBalance(t, m.from, remaining)
                t2 == AddBalance(t1, Coinbase, coinbaseFee)
            IN [txn |-> t2, msg |-> [m EXCEPT !.gas = gas], gasLeft |-> gasLeft, refund |-> refund,
                gasUsed |-> gasUsed, remaining |-> remaining, coinbaseFee |-> coinbaseFee]
    IN Settle(u64(m.gas + TransactionGasCost(m, isRevisionOf(r, Homestead), isRevisionOf(r, Istanbul)).cost))

\* ------------------------------------------------------------------------
\* Interpreter frame (evm.state) and its helpers
\* ------------------------------------------------------------------------

errOutOfGas == "out of gas"
errStackUnderflow == "stack underflow"
errStackOverflow == "stack overflow"
ErrExecutionReverted == "execution was reverted"
errGasUintOverflow == "gas uint64 overflow"
errWriteProtection == "write protection"
errInvalidJump == "invalid jump destination"
errOpCodeNotFound == "opcode not found"

\* call kinds (evmc.CallKind)
KindCall == "Call"
KindCallCode == "CallCode"
KindDelegateCall == "DelegateCall"
KindCreate == "Create"
KindCreate2 == "Create2"

\* the depth at which the CALL and CREATE handlers stop descending
CallDepthLimit == 1024

\* the record of a dispatch step that was not taken
NoOp == [op |-> "none", static |-> FALSE, depth |-> 0, ran |-> FALSE, gasBefore |-> 0, gasAfter |-> 0,
         err |-> ErrNone, muts |-> <<>>, called |-> FALSE, pushed |-> -1, value |-> 0, reserved |-> 0,
         cost |-> 0]

\* state.halt
halt(f) == [f EXCEPT !.stop = TRUE]

\* state.exit
exit(f, err) == [f EXCEPT !.stop = TRUE, !.err = err]

\* an end of the loop iteration without the overflow check
loopLeaveUnchecked(s) == [s EXCEPT !.ip = s.ip + 1]

\* a consumeGas that takes what is left when the gas does not cover the charge
consumeGasClears(f, gas) ==
    IF f.gas < gas THEN [f EXCEPT !.stop = TRUE, !.err = errOutOfGas, !.gas = 0]
    ELSE [f EXCEPT !.gas = f.gas - gas, !.consumed = f.consumed + gas]

\* state.consumeGas: the frame after the charge; it has stopped with
\* errOutOfGas, its gas untouched, when the gas does not cover the charge
consumeGas(f, gas) ==
    IF f.gas < gas THEN exit(f, errOutOfGas)
    ELSE [f EXCEPT !.gas = f.gas - gas, !.consumed = f.consumed + gas]

\* a static flag that is never seen
staticIgnored(f) == FALSE

\* state.inStaticCall
inStaticCall(f) == f.static

\* the product of two machine words as the machine computes it, modulo the
\* word range; computed by halves, which keeps every intermediate value small
mulU64(a, b) ==
    LET h == Pow2(WordBits \div 2)
        al == a % h
        ah == a \div h
        bl == b % h
        bh == b \div h
    IN u64(al * bl + ((al * bh + ah * bl) % (U64 \div h)) * h
           + ((ah * bh) % (U64 \div (h * h))) * h * h)

\* big.Int.IsUint64
IsUint64(x) == x >= 0 /\ x < U64

\* the largest offset and the largest size checkMemory takes: 0xffffffffe0 for
\* words of 64 bits, 32 bytes below 2 ** (WordBits / 2 + 8)
memLimit == Pow2(WordBits \div 2 + 8) - 32

\* state.checkMemory on the memory length (in bytes) of the frame
checkMemory(f, offset, size) ==
    LET Grown(newSize, w) ==
            LET newCost == u64(3 * w + mulU64(w, w) \div 512)
                cost == u64(newCost - f.lastGasCost + U64)
                f1 == consumeGas([f EXCEPT !.lastGasCost = newCost], cost)
            IN IF f.memory < newSize
               THEN IF f1.stop THEN f1 ELSE [f1 EXCEPT !.memory = w * 32]
               ELSE f
    IN IF size = 0 THEN f
       ELSE IF ~IsUint64(offset) \/ ~IsUint64(size) THEN exit(f, errGasUintOverflow)
       ELSE IF u64(offset) > memLimit \/ u64(size) > memLimit THEN exit(f, errGasUintOverflow)
       ELSE Grown(offset + size, (offset + size + 31) \div 32)

\* the frame EVM.Run sets up for a contract c (acquireState and the
\* assignments before s.Run); code is the init code of a creation and the
\* code stored at the code address otherwise
EVMRunStart(t, c, snapshot) ==
    [type |-> c.type, address |-> c.address, caller |-> c.caller,
     codeAddress |-> c.codeAddress, depth |-> c.depth, value |-> c.value,
     static |-> c.static,
     code |-> IF c.type \in {KindCreate, KindCreate2} THEN c.input ELSE GetCode(t, c.codeAddress),
     gas |-> c.gas, gasLimit |-> c.gas, consumed |-> 0, returned |-> 0, snapshot |-> snapshot,
     memory |-> 0, lastGasCost |-> 0, stop |-> FALSE, err |-> ErrNone,
     ret |-> NoBytes, returnData |-> NoBytes, pending |-> NoOp]

\* an epilogue of EVM.Run that reports the remaining gas whatever the error
EVMRunEndKeepsGas(f) == [ret |-> f.ret, gasLeft |-> f.gas, err |-> f.err]

\* EVM.Run after s.Run returned: [ret, gasLeft, err]
EVMRunEnd(f) ==
    [ret |-> f.ret,
     gasLeft |-> IF f.err # ErrNone /\ f.err # ErrExecutionReverted THEN 0 ELSE f.gas,
     err |-> f.err]

\* ------------------------------------------------------------------------
\* Transition driver: frames
\* ------------------------------------------------------------------------

\* Transition.transfer: [ok, txn]
transfer(t, from, to, amount) ==
    LET Moved(sub) == IF ~sub.ok THEN [ok |-> FALSE, txn |-> t]
                      ELSE [ok |-> TRUE, txn |-> AddBalance(sub.txn, to, amount)]
    IN Moved(SubBalance(t, from, amount))

\* a collision check that looks at the code alone
hasCodeOnly(t, a) == ~empty(t, a) /\ getStateObject(t, a).code # NoBytes

\* Transition.hasCodeOrNonce (the code hash of an empty account reads as the
\* zero hash, that of an account without code as the empty code hash)
hasCodeOrNonce(t, a) ==
    IF GetNonce(t, a) # 0 THEN TRUE
    ELSE ~empty(t, a) /\ getStateObject(t, a).code # NoBytes

\* Transition.applyCall up to t.run:
\* [done, txn, snapshots, snapshot, hasSnap, contract, ret, gasLeft, err]
applyCallBegin(t, snaps, c, callType) ==
    LET snap == Snapshot(t, snaps)
        Entered(tr) ==
            [done |-> ~tr.ok, txn |-> tr.txn, snapshots |-> snap.snapshots, snapshot |-> snap.id,
             hasSnap |-> TRUE, contract |-> c, ret |-> NoBytes, gasLeft |-> c.gas,
             err |-> IF tr.ok THEN ErrNone ELSE errNotEnoughFunds]
        Touched(t1) == Entered(IF callType = KindCall THEN transfer(t1, c.caller, c.address, c.value)
                               ELSE [ok |-> TRUE, txn |-> t1])
    IN Touched(TouchAccount(t, c.address))

\* Transition.applyCreate up to t.run
applyCreateBegin(t, snaps, r, c0) ==
    LET \* c: the contract at its address; t1: the overlay after the caller's nonce
        \* is incremented; tr: what transfer returned
        Entered(c, t1, tr) ==
            LET snap == Snapshot(t1, snaps)
            IN [done |-> ~tr.ok, txn |-> tr.txn, snapshots |-> snap.snapshots, snapshot |-> snap.id,
                hasSnap |-> TRUE, contract |-> c, ret |-> NoBytes, gasLeft |-> c.gas,
                err |-> IF tr.ok THEN ErrNone ELSE errNotEnoughFunds]
        Addressed(c, t1) ==
            IF hasCodeOrNonce(t1, c.address)
            THEN [done |-> TRUE, txn |-> t1, snapshots |-> snaps, snapshot |-> 0, hasSnap |-> FALSE,
                  contract |-> c, ret |-> NoBytes, gasLeft |-> 0, err |-> ErrCollision]
            ELSE Entered(c, t1,
                         transfer(IF isRevisionOf(r, SpuriousDragon)
                                  THEN IncrNonce(CreateAccount(t1, c.address), c.address)
                                  ELSE t1,
                                  c.caller, c.address, c.value))
        At(address) == Addressed([c0 EXCEPT !.codeAddress = address, !.address = address],
                                 IncrNonce(t, c0.caller))
    IN At(IF c0.type = KindCreate
          THEN createAddress(c0.caller, GetNonce(t, c0.caller))
          ELSE createAddress2(c0.caller, c0.salt, c0.input))

\* an applyCall that drops the return value on every error
applyCallEndDropsPayload(t, snaps, f, run) ==
    IF run.err # ErrNone
    THEN [txn |-> RevertToSnapshot(t, snaps, f.snapshot), ret |-> NoBytes,
          gasLeft |-> run.gasLeft, err |-> run.err]
    ELSE [txn |-> t, ret |-> run.ret, gasLeft |-> run.gasLeft, err |-> run.err]

\* Transition.applyCall after t.run returned run = [ret, gasLeft, err]:
\* [txn, ret, gasLeft, err]
applyCallEnd(t, snaps, f, run) ==
    IF run.err # ErrNone
    THEN [txn |-> RevertToSnapshot(t, snaps, f.snapshot),
          ret |-> IF run.err # ErrExecutionReverted THEN NoBytes ELSE run.ret,
          gasLeft |-> run.gasLeft, err |-> run.err]
    ELSE [txn |-> t, ret |-> run.ret, gasLeft |-> run.gasLeft, err |-> run.err]

\* an applyCreate that keeps the changes of the frame at every revision when
\* the gas left does not pay for the code
applyCreateEndKeeps(t, snaps, r, f, run) ==
    LET gasCost == Len(run.ret) * 200
    IN IF run.err # ErrNone
       THEN [txn |-> RevertToSnapshot(t, snaps, f.snapshot),
             ret |-> IF run.err # ErrExecutionReverted THEN NoBytes ELSE run.ret,
             gasLeft |-> run.gasLeft, err |-> run.err]
       ELSE IF isRevisionOf(r, SpuriousDragon) /\ Len(run.ret) > spuriousDragonMaxCodeSize
       THEN [txn |-> RevertToSnapshot(t, snaps, f.snapshot), ret |-> NoBytes, gasLeft |-> 0,
             err |-> ErrMaxCodeSize]
       ELSE IF int64(run.gasLeft) < gasCost
       THEN [txn |-> t, ret |-> NoBytes, gasLeft |-> run.gasLeft, err |-> ErrCodeStoreOutOfGas]
       ELSE [txn |-> SetCode(t, f.address, run.ret), ret |-> NoBytes,
             gasLeft |-> u64(run.gasLeft - gasCost + U64), err |-> ErrNone]

\* Transition.applyCreate after t.run returned
applyCreateEnd(t, snaps, r, f, run) ==
    LET gasCost == Len(run.ret) * 200
    IN IF run.err # ErrNone
       THEN [txn |-> RevertToSnapshot(t, snaps, f.snapshot),
             ret |-> IF run.err # ErrExecutionReverted THEN NoBytes ELSE run.ret,
             gasLeft |-> run.gasLeft, err |-> run.err]
       ELSE IF isRevisionOf(r, SpuriousDragon) /\ Len(run.ret) > spuriousDragonMaxCodeSize
       THEN [txn |-> RevertToSnapshot(t, snaps, f.snapshot), ret |-> NoBytes, gasLeft |-> 0,
             err |-> ErrMaxCodeSize]
       ELSE IF int64(run.gasLeft) < gasCost
       THEN IF isRevisionOf(r, Homestead)
            THEN [txn |-> RevertToSnapshot(t, snaps, f.snapshot), ret |-> NoBytes, gasLeft |-> 0,
                  err |-> ErrCodeStoreOutOfGas]
            ELSE [txn |-> t, ret |-> NoBytes, gasLeft |-> run.gasLeft, err |-> ErrCodeStoreOutOfGas]
       ELSE [txn |-> SetCode(t, f.address, run.ret), ret |-> NoBytes,
             gasLeft |-> u64(run.gasLeft - gasCost + U64), err |-> ErrNone]

\* ------------------------------------------------------------------------
\* State of the machine
\* ------------------------------------------------------------------------

VARIABLES
    rev,        \* Config.Rev, the revision the Transition was built with
    txn,        \* Txn.txn, the live overlay
    snapshots,  \* Txn.snapshots
    msg,        \* the Message handed to Write (preCheck / postCheck change its Gas)
    frames,     \* the frames in execution, innermost last
    result,     \* what the last Write returned and what it settled
    nsteps,     \* number of dispatch steps executed
    lastOp,     \* the last dispatch step: opcode, gas before and after, Host calls issued
    lastRet,    \* the last return of applyCall / applyCreate to its caller
    interp      \* an evm.state run on concrete bytecode: code, jump bitmap, ip, stack

vars == <<rev, txn, snapshots, msg, frames, result, nsteps, lastOp, lastRet, interp>>

\* revisions the Transition is configured with
Revs == {Frontier, Byzantium, Istanbul}

NoMsg == [nonce |-> 0, gasPrice |-> 0, gas |-> 0, to |-> NoTo, value |-> 0, input |-> NoBytes, from |-> "S"]

InitCode == <<96, 0>>

\* messages written to the Transition
Msgs ==
    { [NoMsg EXCEPT !.gasPrice = 1, !.gas = 20000, !.to = "A"],
      [NoMsg EXCEPT !.gasPrice = 1, !.gas = 121000, !.to = "A", !.nonce = 1],
      [NoMsg EXCEPT !.gasPrice = 3, !.gas = 200000, !.to = "A"],
      [NoMsg EXCEPT !.gasPrice = 1, !.gas = 50000, !.to = "A", !.value = SenderFunds],
      [NoMsg EXCEPT !.gasPrice = 1, !.gas = 21100, !.to = "A"],
      [NoMsg EXCEPT !.gasPrice = 2, !.gas = 121000, !.to = "A", !.value = 1, !.input = <<0, 1>>],
      [NoMsg EXCEPT !.gasPrice = 1, !.gas = 121000, !.to = "A", !.nonce = 1, !.value = 1],
      [NoMsg EXCEPT !.gasPrice = 1, !.gas = 53150, !.value = 1, !.input = InitCode],
      [NoMsg EXCEPT !.gasPrice = 1, !.gas = 153000, !.nonce = 1, !.input = InitCode] }

NoPost == [refund |-> 0, gasUsed |-> 0, remaining |-> 0, coinbaseFee |-> 0, execGasLeft |-> 0, upfront |-> 0,
           counter |-> 0]

NoOutput == [ReturnValue |-> NoBytes, Logs |-> <<>>, GasLeft |-> 0, Success |-> FALSE, ContractAddress |-> "nil"]

\* accepted: the messages Write has accepted (those that passed preCheck), in
\* the order of their acceptance
NoResult == [kind |-> "none", err |-> ErrNone, output |-> NoOutput, msg0 |-> NoMsg, pre |-> EmptyTxn, post |-> NoPost,
             accepted |-> <<>>]

NoRet == [valid |-> FALSE, type |-> KindCall, depth |-> 0, ran |-> FALSE, err |-> ErrNone, ret |-> NoBytes,
          gasLeft |-> 0, frameErr |-> ErrNone, frameRet |-> NoBytes, frameGas |-> 0, evmGasLeft |-> 0,
          hasSnap |-> FALSE, atReturn |-> EmptyTxn, atSnapshot |-> EmptyTxn, before |-> EmptyTxn]

\* the last instruction of the bytecode run: opcode, operands popped, whether
\* its handler ran, the stack depth and the gas it was dispatched with and the
\* depth it needs; of a memory access its offset and size, and the memory
\* length and the memory charge before it
NoInstr == [op |-> "none", dest |-> 0, cond |-> 0, ran |-> FALSE, sp |-> 0, need |-> 0, gas |-> 0,
            offset |-> 0, size |-> 0, memory |-> 0, lastGasCost |-> 0]

\* no bytecode run is in progress
NoInterp == [code |-> NoBytes, bitmap |-> {}, ip |-> 0, stack |-> <<>>, gas |-> 0, consumed |-> 0,
             static |-> FALSE, address |-> "A", memory |-> 0, lastGasCost |-> 0,
             stop |-> TRUE, err |-> ErrNone, last |-> NoInstr]

Init ==
    /\ rev \in Revs
    /\ txn = EmptyTxn
    /\ snapshots = <<>>
    /\ msg = NoMsg
    /\ frames = <<>>
    /\ result = NoResult
    /\ nsteps = 0
    /\ lastOp = NoOp
    /\ lastRet = NoRet
    /\ interp = NoInterp

Top == frames[Len(frames)]

Running == frames # <<>> /\ ~Top.stop

SetTop(f) == [frames EXCEPT ![Len(frames)] = f]

\* ------------------------------------------------------------------------
\* Write: pre-check, Apply, post-check, sweep
\* ------------------------------------------------------------------------

\* the rest of Transition.Write once applyCall / applyCreate returned
\* res = [ret, gasLeft, err] to Apply: Output, postCheck, CleanDeleteObjects
WriteEnd(t, r, m, res) ==
    LET deleteEmpty == IF isRevisionOf(r, Byzantium) THEN TRUE ELSE isRevisionOf(r, SpuriousDragon)
        \* lg: what Logs returned; out: the Output Apply built; pc: what postCheck returned
        Checked(lg, out, pc) ==
            [txn |-> CleanDeleteObjects(pc.txn, deleteEmpty), msg |-> pc.msg,
             output |-> [out EXCEPT !.GasLeft = pc.gasLeft],
             post |-> [refund |-> pc.refund, gasUsed |-> pc.gasUsed, remaining |-> pc.remaining,
                       coinbaseFee |-> pc.coinbaseFee, execGasLeft |-> res.gasLeft, upfront |-> 0,
                       counter |-> GetRefund(lg.txn)]]
        Applied(lg, out) == Checked(lg, out, postCheck(lg.txn, r, m, out.GasLeft))
        Logged(lg) ==
            Applied(lg, [ReturnValue |-> res.ret, Logs |-> lg.logs, GasLeft |-> res.gasLeft,
                         Success |-> res.err = ErrNone,
                         ContractAddress |-> IF m.to = NoTo THEN createAddress(m.from, m.nonce) ELSE "nil"])
    IN Logged(Logs(t))

\* the record of a frame that returned without running (begin.done)
RetNotRun(begin, c, entry) ==
    [NoRet EXCEPT !.valid = TRUE, !.type = c.type, !.depth = c.depth, !.err = begin.err,
                  !.ret = begin.ret, !.gasLeft = begin.gasLeft, !.hasSnap = begin.hasSnap,
                  !.atReturn = begin.txn, !.before = begin.txn,
                  !.atSnapshot = IF begin.hasSnap THEN begin.snapshots[begin.snapshot + 1] ELSE entry]

\* Transition.Write(m), up to the point where the root frame starts running,
\* after the messages hist have been accepted
WriteBody(m, hist) ==
    /\ frames = <<>>
    /\ LET \* pre: what preCheck returned
           Upfront(pre) == GetBalance(txn, m.from) - GetBalance(pre.txn, m.from)
           \* applyCall / applyCreate returned without running code: end is the
           \* rest of Write
           Settled(pre, entry, begin, end) ==
               /\ txn' = end.txn
               /\ msg' = end.msg
               /\ snapshots' = begin.snapshots
               /\ result' = [NoResult EXCEPT !.kind = "output", !.output = end.output, !.msg0 = m,
                                             !.pre = txn, !.accepted = Append(hist, m),
                                             !.post = [end.post EXCEPT !.upfront = Upfront(pre)]]
               /\ lastRet' = RetNotRun(begin, begin.contract, entry)
               /\ UNCHANGED frames
           \* entry: the overlay Apply hands to applyCall / applyCreate;
           \* begin: what these did before t.run
           Begun(pre, entry, begin) ==
               IF begin.done
               THEN Settled(pre, entry, begin, WriteEnd(begin.txn, rev, pre.msg, begin))
               ELSE /\ txn' = begin.txn
                    /\ msg' = pre.msg
                    /\ snapshots' = begin.snapshots
                    /\ frames' = <<EVMRunStart(begin.txn, begin.contract, begin.snapshot)>>
                    /\ result' = [NoResult EXCEPT !.kind = "running", !.msg0 = m, !.pre = txn,
                                                  !.accepted = Append(hist, m),
                                                  !.post = [NoPost EXCEPT !.upfront = Upfront(pre)]]
                    /\ UNCHANGED lastRet
           Applied(pre, c, entry) ==
               Begun(pre, entry, IF c.type = KindCreate
                                 THEN applyCreateBegin(entry, snapshots, rev, c)
                                 ELSE applyCallBegin(entry, snapshots, c, KindCall))
           Addressed(pre, creation, address) ==
               Applied(pre,
                       [type |-> IF creation THEN KindCreate ELSE KindCall,
                        address |-> address, caller |-> m.from, codeAddress |-> address,
                        depth |-> 0, value |-> m.value, input |-> m.input, gas |-> pre.msg.gas,
                        static |-> FALSE, salt |-> 0],
                       IF creation THEN pre.txn ELSE IncrNonce(pre.txn, m.from))
           Checked(pre, creation) ==
               IF pre.err # ErrNone
               THEN /\ txn' = pre.txn
                    /\ msg' = pre.msg
                    /\ result' = [NoResult EXCEPT !.kind = "error", !.err = pre.err, !.msg0 = m,
                                                  !.pre = txn, !.accepted = hist]
                    /\ UNCHANGED <<snapshots, frames, lastRet>>
               ELSE Addressed(pre, creation,
                              IF creation THEN createAddress(m.from, GetNonce(pre.txn, m.from))
                              ELSE m.to)
       IN Checked(preCheck(txn, rev, m), IsContractCreation(m))
    /\ UNCHANGED <<interp, rev>>

\* the first Write of a Transition
Write(m) ==
    /\ result.kind = "none"
    /\ WriteBody(m, <<>>)
    /\ UNCHANGED <<nsteps, lastOp>>

\* arguments of direct calls of the Host entry point Transition.Call:
\* kind, recipient, sender, value, gas, depth, static
EntryArgs ==
    { <<KindCall, "A", "S", 0, 100000, CallDepthLimit - 1, FALSE>>,
      <<KindCall, "A", "S", 1, 100000, CallDepthLimit, FALSE>>,
      <<KindCall, "A", "S", 0, 100000, 0, TRUE>> }

\* Transition.Call / Callx invoked from outside the interpreter, up to the
\* point where the frame starts running
Call(kind, recipient, sender, value, gas, depth, static) ==
    /\ frames = <<>>
    /\ result.kind = "none"
    /\ LET c == [type |-> kind, address |-> recipient, caller |-> sender, codeAddress |-> recipient,
                 depth |-> depth, value |-> value, input |-> NoBytes, gas |-> gas,
                 static |-> static, salt |-> 0]
           \* begin: what applyCall / applyCreate did before t.run
           Begun(begin) ==
               /\ txn' = begin.txn
               /\ snapshots' = begin.snapshots
               /\ IF begin.done
                  THEN /\ result' = [NoResult EXCEPT !.kind = "returned", !.pre = txn]
                       /\ lastRet' = RetNotRun(begin, begin.contract, txn)
                       /\ UNCHANGED frames
                  ELSE /\ frames' = <<EVMRunStart(begin.txn, begin.contract, begin.snapshot)>>
                       /\ result' = [NoResult EXCEPT !.kind = "calling", !.pre = txn]
                       /\ UNCHANGED lastRet
       IN Begun(IF c.type \in {KindCreate, KindCreate2}
                THEN applyCreateBegin(txn, snapshots, rev, c)
                ELSE applyCallBegin(txn, snapshots, c, c.type))
    /\ UNCHANGED <<interp, rev, msg, nsteps, lastOp>>

\* ------------------------------------------------------------------------
\* Opcode handlers
\* ------------------------------------------------------------------------

STOP == "STOP"
RETURN == "RETURN"
REVERT == "REVERT"
SSTORE == "SSTORE"
LOG == "LOG"
SELFDESTRUCT == "SELFDESTRUCT"
CALL == "CALL"
CALLCODE == "CALLCODE"
DELEGATECALL == "DELEGATECALL"
STATICCALL == "STATICCALL"
CREATE == "CREATE"
CREATE2 == "CREATE2"
ADD == "ADD"
RETURNDATACOPY == "RETURNDATACOPY"

\* the gas column of the dispatch table
baseGas(op) ==
    CASE op \in {ADD, RETURNDATACOPY} -> 3
      [] op = LOG -> 375
      [] op \in {CREATE, CREATE2} -> 32000
      [] OTHER -> 0

\* the bytes a handler reads from memory (get2): memory contents are not
\* tracked, every byte read is FillByte
FillByte == 7

MemBytes(size) == [i \in 1..size |-> FillByte]

\* state.get2 on the memory length: the frame after checkMemory
get2(f, offset, length) == IF length = 0 THEN f ELSE checkMemory(f, offset, length)

NoContract == [type |-> KindCall, address |-> "nil", caller |-> "nil", codeAddress |-> "nil",
               depth |-> 0, value |-> 0, input |-> NoBytes, gas |-> 0, static |-> FALSE, salt |-> 0]

\* an SSTORE with one charge for every status
opSStoreFlat(f, t, r, key, val) ==
    LET Stored(st) == [frame |-> consumeGas(f, 5000), txn |-> st.txn,
                       muts |-> <<[kind |-> "SetStorage", gas |-> f.gas]>>]
    IN Stored(SetStorage(t, r, f.address, key, val))

\* a test that lets a frame with exactly 2300 gas write
belowStipendStrict(f, r) == isRevisionOf(r, Istanbul) /\ f.gas < 2300

\* the test of opSStore on the gas left, from Istanbul on
belowStipend(f, r) == isRevisionOf(r, Istanbul) /\ f.gas <= 2300

\* opSStore: [frame, txn, muts]
opSStore(f, t, r, key, val) ==
    LET legacyGasMetering ==
            ~isRevisionOf(r, Istanbul) /\ (isRevisionOf(r, Petersburg) \/ ~isRevisionOf(r, Constantinople))
        \* st: what host.SetStorage returned
        Stored(st) ==
            LET cost == CASE st.status \in {StorageUnchanged, StorageModifiedAgain} ->
                                 IF isRevisionOf(r, Istanbul) THEN 800
                                 ELSE IF legacyGasMetering THEN 5000 ELSE 200
                          [] st.status = StorageModified -> 5000
                          [] st.status = StorageAdded -> 20000
                          [] st.status = StorageDeleted -> 5000
            IN [frame |-> consumeGas(f, cost), txn |-> st.txn,
                muts |-> <<[kind |-> "SetStorage", gas |-> f.gas]>>]
    IN IF inStaticCall(f) THEN [frame |-> exit(f, errWriteProtection), txn |-> t, muts |-> <<>>]
       ELSE IF belowStipend(f, r)
       THEN [frame |-> exit(f, errOutOfGas), txn |-> t, muts |-> <<>>]
       ELSE Stored(SetStorage(t, r, f.address, key, val))

\* opLog(size): [frame, txn, muts]
opLog(f, t, size, mStart, mSize) ==
    LET topics == [i \in 1..size |-> i]
        \* f1: the frame after get2 read the data
        Read(f1) ==
            LET f2 == consumeGas(f1, u64(size * 375))
                f3 == IF f2.stop THEN f2 ELSE consumeGas(f2, u64(mSize * 8))
            IN IF f1.stop THEN [frame |-> f1, txn |-> t, muts |-> <<>>]
               ELSE [frame |-> f3, txn |-> EmitLog(t, f.address, topics, MemBytes(mSize)),
                     muts |-> <<[kind |-> "EmitLog", gas |-> f1.gas]>>]
    IN IF inStaticCall(f) THEN [frame |-> exit(f, errWriteProtection), txn |-> t, muts |-> <<>>]
       ELSE Read(get2(f, mStart, mSize))

\* a self-destruct that adds the refund every time
SelfdestructAlways(t, addr, beneficiary) ==
    Suicide(AddBalance(AddRefund(t, 24000), beneficiary, GetBalance(t, addr)), addr)

\* Transition.Selfdestruct
Selfdestruct(t, addr, beneficiary) ==
    LET Credited(t1) == Suicide(AddBalance(t1, beneficiary, GetBalance(t1, addr)), addr)
    IN Credited(IF ~HasSuicided(t, addr) THEN AddRefund(t, 24000) ELSE t)

\* opSelfDestruct: [frame, txn, muts]
opSelfDestruct(f, t, r, address) ==
    LET gas == IF isRevisionOf(r, TangerineWhistle)
               THEN 5000 + (IF (r = TangerineWhistle \/ GetBalance(t, f.address) # 0)
                               /\ ~AccountExists(t, r, address)
                            THEN 25000 ELSE 0)
               ELSE 0
        \* f1: the frame after consumeGas(gas)
        Charged(f1) ==
            IF f1.stop THEN [frame |-> f1, txn |-> t, muts |-> <<>>]
            ELSE [frame |-> halt(f1), txn |-> Selfdestruct(t, f.address, address),
                  muts |-> <<[kind |-> "Selfdestruct", gas |-> f1.gas]>>]
    IN IF inStaticCall(f) THEN [frame |-> exit(f, errWriteProtection), txn |-> t, muts |-> <<>>]
       ELSE Charged(consumeGas(f, gas))

\* opHalt(op) for RETURN and REVERT: the frame afterwards
opHalt(f, r, op, offset, size) ==
    LET \* f1: the frame after get2 read the return value
        Read(f1) ==
            LET f2 == [f1 EXCEPT !.ret = MemBytes(size)]
            IN IF f1.stop THEN [f1 EXCEPT !.ret = NoBytes]
               ELSE IF op = REVERT THEN exit(f2, ErrExecutionReverted)
               ELSE halt(f2)
    IN IF op = REVERT /\ ~isRevisionOf(r, Byzantium) THEN exit(f, errOpCodeNotFound)
       ELSE Read(get2(f, offset, size))

\* opCodeToCallKind
opCodeToCallKind(op) ==
    CASE op = CALL -> KindCall
      [] op = STATICCALL -> KindCall
      [] op = CALLCODE -> KindCallCode
      [] op = DELEGATECALL -> KindDelegateCall
      [] op = CREATE -> KindCreate
      [] op = CREATE2 -> KindCreate2

\* a depth test that never fires
depthUnchecked(f) == FALSE

\* the depth test of opCall and opCreate
atDepthLimit(f) == f.depth >= CallDepthLimit

\* a callee that is static only when STATICCALL starts it
isStaticOwn(op, f) == op = STATICCALL

\* the static flag opCall hands to the Host for the callee of frame f
isStatic(op, f) == op = STATICCALL \/ f.static

\* opCall(op) up to c.host.Call:
\* [frame, descend, contract, pushed, reserved, charged]
\* descend: Host.Call is invoked with contract; otherwise the handler has
\* returned (pushed is the word it pushed, -1 for none); reserved is the gas
\* of the callee and charged what the handler consumed, reserved included
opCall(f0, t, r, op, initialGas, addr, value0, inOffset, inSize, retOffset, retSize) ==
    LET f == [f0 EXCEPT !.returnData = NoBytes]
        callType == opCodeToCallKind(op)
        transfersValue == op \in {CALL, CALLCODE} /\ value0 # 0
        ok == initialGas < U64
        value == IF op = DELEGATECALL THEN f.value
                 ELSE IF op \in {CALL, CALLCODE} THEN value0 ELSE 0
        \* the handler returns from frame fr without a call
        stay(fr) == [frame |-> fr, descend |-> FALSE, contract |-> NoContract,
                     pushed |-> -1, reserved |-> 0, charged |-> f0.gas - fr.gas]
        \* f3: the frame after consumeGas(gasCost); gas: the gas of the callee
        Charged(f3, gas) ==
            LET contract == [type |-> callType,
                             address |-> IF op \in {CALLCODE, DELEGATECALL} THEN f.address ELSE addr,
                             caller |-> IF op = DELEGATECALL THEN f.caller ELSE f.address,
                             codeAddress |-> addr, depth |-> f.depth + 1, value |-> value,
                             input |-> MemBytes(inSize), gas |-> gas,
                             static |-> isStatic(op, f), salt |-> 0]
                \* the handler pushes 0 and adds the gas of the callee back
                back == [frame |-> [f3 EXCEPT !.gas = u64(f3.gas + gas),
                                             !.returned = f3.returned + gas],
                         descend |-> FALSE,
                         contract |-> NoContract, pushed |-> 0, reserved |-> gas,
                         charged |-> u64(f0.gas - f3.gas + U64)]
            IN IF f3.stop THEN stay(f3)
               ELSE IF transfersValue /\ GetBalance(t, f.address) < value THEN back
               ELSE IF atDepthLimit(f) THEN back
               ELSE [frame |-> f3, descend |-> TRUE, contract |-> contract, pushed |-> -1,
                     reserved |-> gas, charged |-> u64(f0.gas - f3.gas + U64)]
        \* gas0: the gas the callee is given, before the stipend
        Reserved(f2, gasCost0, gas0) ==
            IF ~isRevisionOf(r, TangerineWhistle) /\ ~ok THEN stay(exit(f2, errOutOfGas))
            ELSE Charged(consumeGas(f2, u64(gasCost0 + gas0)),
                         IF transfersValue THEN u64(gas0 + 2300) ELSE gas0)
        \* gasCost0: the cost of the opcode without the gas of the callee
        Priced(f2, gasCost0) ==
            LET availableGas0 == u64(f2.gas - gasCost0 + U64)
                availableGas == availableGas0 - availableGas0 \div 64
            IN Reserved(f2, gasCost0,
                        IF isRevisionOf(r, TangerineWhistle)
                        THEN IF ~ok \/ availableGas < u64(initialGas) THEN availableGas ELSE u64(initialGas)
                        ELSE u64(initialGas))
        \* f2: the frame after checkMemory on the return area
        Expanded(f2) ==
            IF f2.stop THEN stay(f2)
            ELSE Priced(f2, (IF isRevisionOf(r, TangerineWhistle) THEN 700 ELSE 40)
                            + (IF op = CALL /\ (transfersValue \/ ~isRevisionOf(r, SpuriousDragon))
                                  /\ ~AccountExists(t, r, addr) THEN 25000 ELSE 0)
                            + (IF transfersValue THEN 9000 ELSE 0))
        \* f1: the frame after get2 read the input
        Read(f1) == IF f1.stop THEN stay(f1) ELSE Expanded(checkMemory(f1, retOffset, retSize))
    IN IF op = CALL /\ inStaticCall(f) /\ value0 # 0 THEN stay(exit(f, errWriteProtection))
       ELSE IF op = DELEGATECALL /\ ~isRevisionOf(r, Homestead) THEN stay(exit(f, errOpCodeNotFound))
       ELSE IF op = STATICCALL /\ ~isRevisionOf(r, Byzantium) THEN stay(exit(f, errOpCodeNotFound))
       ELSE Read(get2(f, inOffset, inSize))

\* opCreate(op) up to c.host.Call
opCreate(f0, t, r, op, value, offset, length, salt) ==
    LET f == [f0 EXCEPT !.returnData = NoBytes]
        hasTransfer == value # 0
        \* the handler returns from frame fr without a call
        stay(fr, pushed) == [frame |-> fr, descend |-> FALSE, contract |-> NoContract,
                             pushed |-> pushed, reserved |-> 0, charged |-> f0.gas - fr.gas]
        \* f3: the frame after consumeGas(gas); gas: the gas of the creation
        Charged(f3, gas) ==
            LET contract == [type |-> opCodeToCallKind(op), address |-> "nil", caller |-> f.address,
                             codeAddress |-> "nil", depth |-> f.depth + 1, value |-> value,
                             input |-> MemBytes(length), gas |-> gas, static |-> FALSE,
                             salt |-> IF op = CREATE2 THEN salt ELSE 0]
                \* the handler pushes 0 and adds the gas of the creation back
                back == [frame |-> [f3 EXCEPT !.gas = u64(f3.gas + gas),
                                             !.returned = f3.returned + gas],
                         descend |-> FALSE,
                         contract |-> NoContract, pushed |-> 0, reserved |-> gas,
                         charged |-> f0.gas - f3.gas]
            IN IF f3.stop THEN stay(f3, 0)
               ELSE IF atDepthLimit(f) THEN back
               ELSE [frame |-> f3, descend |-> TRUE, contract |-> contract, pushed |-> -1,
                     reserved |-> gas, charged |-> f0.gas - f3.gas]
        Reserved(f2, gas) == Charged(consumeGas(f2, gas), gas)
        \* f2: the frame after the hashing cost of CREATE2
        Hashed(f2) ==
            IF f2.stop THEN stay(f2, 0)
            ELSE Reserved(f2, IF isRevisionOf(r, TangerineWhistle) \/ op = CREATE2
                              THEN f2.gas - f2.gas \div 64 ELSE f2.gas)
        \* f1: the frame after get2 read the init code
        Read(f1) ==
            IF f1.stop THEN stay(f1, 0)
            ELSE IF hasTransfer /\ GetBalance(t, f.address) < value THEN stay(f1, 0)
            ELSE Hashed(IF op = CREATE2 THEN consumeGas(f1, u64(((length + 31) \div 32) * 6)) ELSE f1)
    IN IF inStaticCall(f0) THEN stay(exit(f0, errWriteProtection), -1)
       ELSE IF op = CREATE2 /\ ~isRevisionOf(r, Constantinople) THEN stay(exit(f0, errOpCodeNotFound), -1)
       ELSE Read(get2(f, offset, length))

\* a handler that drops what the callee returned
opCallEndDrops(f, res) ==
    [f EXCEPT !.gas = u64(f.gas + res.gasLeft), !.returned = f.returned + u64(res.gasLeft),
              !.returnData = NoBytes, !.pending = NoOp]

\* the rest of opCall / opCreate once c.host.Call returned res
opCallEnd(f, res) ==
    [f EXCEPT !.gas = u64(f.gas + res.gasLeft), !.returned = f.returned + u64(res.gasLeft),
              !.returnData = res.ret, !.pending = NoOp]

\* ------------------------------------------------------------------------
\* The dispatch loop (state.Run): one action per opcode
\* ------------------------------------------------------------------------

\* operands the handlers pop, drawn from small sets
StoreVals == {0, 2}
LogArgs == {<<0, 0>>, <<2, 32>>}
Beneficiaries == {"CB"}
HaltArgs == {<<RETURN, 1>>, <<REVERT, 1>>}
CallArgs ==
    { <<CALL, 30000, "A", 0>>, <<CALL, MaxU64, "A", 0>>, <<CALL, 30000, "N", 1>>,
      <<CALL, 5, "S", SenderFunds + 1>>, <<CALL, U64 - 9040, "S", SenderFunds + 1>>,
      <<CALLCODE, 30000, "A", 1>>, <<CALLCODE, 5, "A", SenderFunds + 1>>,
      <<DELEGATECALL, 30000, "A", 0>>, <<STATICCALL, U64 + 5, "A", 0>> }
CreateArgs == { <<CREATE, 0, 2>>, <<CREATE, SenderFunds + 1, 2>>, <<CREATE2, 1, 0>> }
Faults == {errOpCodeNotFound, errStackUnderflow}

\* the frame can execute an instruction: the loop has not stopped and ip
\* is inside the code
CanDispatch == Running /\ Top.code # NoBytes

\* the record of a dispatch step: f the frame before the instruction, f1
\* after it; reserved is the gas set aside for a callee, cost what consumeGas
\* took in the step
StepRec(op, f, f1, ran, muts, called, pushed, value, reserved, cost) ==
    [op |-> op, static |-> f.static, depth |-> f.depth, ran |-> ran, gasBefore |-> f.gas,
     gasAfter |-> f1.gas, err |-> f1.err, muts |-> muts, called |-> called, pushed |-> pushed,
     value |-> value, reserved |-> reserved, cost |-> cost]

\* the bounds of a run of the driver: instructions dispatched, frames open
Limits == [steps |-> MaxSteps, frames |-> MaxFrames]

\* ip >= codeSize: the loop halts
RunOffEnd ==
    /\ Running
    /\ frames' = SetTop(halt(Top))
    /\ UNCHANGED <<interp, rev, txn, snapshots, msg, result, nsteps, lastOp, lastRet>>

\* an instruction the loop rejects before its handler runs: no entry in the
\* dispatch table, or fewer stack items than the entry requires
OpFaultIn(lim, err) ==
    /\ CanDispatch
    /\ nsteps < lim.steps
    /\ nsteps' = nsteps + 1
    /\ frames' = SetTop(exit(Top, err))
    /\ lastOp' = StepRec("fault", Top, exit(Top, err), FALSE, <<>>, FALSE, -1, 0, 0, 0)
    /\ UNCHANGED <<interp, rev, txn, snapshots, msg, result, lastRet>>

OpFault(err) == OpFaultIn(Limits, err)

\* an instruction without Host effect (ADD stands for all of them)
OpArith ==
    /\ CanDispatch
    /\ nsteps < MaxSteps
    /\ nsteps' = nsteps + 1
    /\ LET f1 == consumeGas(Top, baseGas(ADD))
       IN /\ frames' = SetTop(f1)
          /\ lastOp' = StepRec(ADD, Top, f1, ~f1.stop, <<>>, FALSE, -1, 0, 0, Top.gas - f1.gas)
    /\ UNCHANGED <<interp, rev, txn, snapshots, msg, result, lastRet>>

OpStop ==
    /\ CanDispatch
    /\ nsteps < MaxSteps
    /\ nsteps' = nsteps + 1
    /\ LET f1 == consumeGas(Top, baseGas(STOP))
       IN /\ frames' = SetTop(halt(f1))
          /\ lastOp' = StepRec(STOP, Top, halt(f1), TRUE, <<>>, FALSE, -1, 0, 0, 0)
    /\ UNCHANGED <<interp, rev, txn, snapshots, msg, result, lastRet>>

OpHaltIn(lim, op, size) ==
    /\ CanDispatch
    /\ nsteps < lim.steps
    /\ nsteps' = nsteps + 1
    /\ LET \* f0: the frame after the base gas; f1: after the handler
           Handled(f0, f1) ==
               /\ frames' = SetTop(f1)
               /\ lastOp' = StepRec(op, Top, f1, ~f0.stop, <<>>, FALSE, -1, 0, 0, Top.gas - f1.gas)
           Charged(f0) == Handled(f0, IF f0.stop THEN f0 ELSE opHalt(f0, rev, op, 0, size))
       IN Charged(consumeGas(Top, baseGas(op)))
    /\ UNCHANGED <<interp, rev, txn, snapshots, msg, result, lastRet>>

OpHalt(op, size) == OpHaltIn(Limits, op, size)

OpSStoreIn(lim, key, val) ==
    /\ CanDispatch
    /\ nsteps < lim.steps
    /\ nsteps' = nsteps + 1
    /\ LET \* f0: the frame after the base gas; h: what the handler did
           Handled(f0, h) ==
               /\ frames' = SetTop(h.frame)
               /\ txn' = h.txn
               /\ lastOp' = StepRec(SSTORE, Top, h.frame, ~f0.stop, h.muts, FALSE, -1, 0, 0,
                                    Top.gas - h.frame.gas)
           Charged(f0) == Handled(f0, IF f0.stop THEN [frame |-> f0, txn |-> txn, muts |-> <<>>]
                                      ELSE opSStore(f0, txn, rev, key, val))
       IN Charged(consumeGas(Top, baseGas(SSTORE)))
    /\ UNCHANGED <<interp, rev, snapshots, msg, result, lastRet>>

OpSStore(key, val) == OpSStoreIn(Limits, key, val)

OpLogIn(lim, size, mSize) ==
    /\ CanDispatch
    /\ nsteps < lim.steps
    /\ nsteps' = nsteps + 1
    /\ LET \* f0: the frame after the base gas; h: what the handler did
           Handled(f0, h) ==
               /\ frames' = SetTop(h.frame)
               /\ txn' = h.txn
               /\ lastOp' = StepRec(LOG, Top, h.frame, ~f0.stop, h.muts, FALSE, -1, 0, 0,
                                    Top.gas - h.frame.gas)
           Charged(f0) == Handled(f0, IF f0.stop THEN [frame |-> f0, txn |-> txn, muts |-> <<>>]
                                      ELSE opLog(f0, txn, size, 0, mSize))
       IN Charged(consumeGas(Top, baseGas(LOG)))
    /\ UNCHANGED <<interp, rev, snapshots, msg, result, lastRet>>

OpLog(size, mSize) == OpLogIn(Limits, size, mSize)

OpSelfDestructIn(lim, address) ==
    /\ CanDispatch
    /\ nsteps < lim.steps
    /\ nsteps' = nsteps + 1
    /\ LET \* f0: the frame after the base gas; h: what the handler did
           Handled(f0, h) ==
               /\ frames' = SetTop(h.frame)
               /\ txn' = h.txn
               /\ lastOp' = StepRec(SELFDESTRUCT, Top, h.frame, ~f0.stop, h.muts, FALSE, -1, 0, 0,
                                    Top.gas - h.frame.gas)
           Charged(f0) == Handled(f0, IF f0.stop THEN [frame |-> f0, txn |-> txn, muts |-> <<>>]
                                      ELSE opSelfDestruct(f0, txn, rev, address))
       IN Charged(consumeGas(Top, baseGas(SELFDESTRUCT)))
    /\ UNCHANGED <<interp, rev, snapshots, msg, result, lastRet>>

OpSelfDestruct(address) == OpSelfDestructIn(Limits, address)

\* Transition.Call / Callx for the contract a handler hands to the Host, and
\* what follows in the handler when the driver returns without running it
HostCallIn(lim, op, pr, value) ==
    LET c == pr.contract
        rec == StepRec(op, Top, pr.frame, TRUE, <<[kind |-> "Call", gas |-> pr.frame.gas]>>,
                       TRUE, -1, value, pr.reserved, baseGas(op) + pr.charged)
        \* begin: what applyCall / applyCreate did before t.run; back: the
        \* caller's frame when they returned without running code
        Begun(begin, back) ==
            /\ txn' = begin.txn
            /\ snapshots' = begin.snapshots
            /\ IF begin.done
               THEN /\ frames' = SetTop(back)
                    /\ lastOp' = [rec EXCEPT !.pushed = 0, !.gasAfter = back.gas]
                    /\ lastRet' = RetNotRun(begin, begin.contract, txn)
               ELSE /\ Len(frames) < lim.frames
                    /\ frames' = Append(SetTop([pr.frame EXCEPT !.pending = rec]),
                                        EVMRunStart(begin.txn, begin.contract, begin.snapshot))
                    /\ lastOp' = rec
                    /\ UNCHANGED lastRet
        Entered(begin) == Begun(begin, opCallEnd(pr.frame, begin))
    IN Entered(IF c.type \in {KindCreate, KindCreate2}
               THEN applyCreateBegin(txn, snapshots, rev, c)
               ELSE applyCallBegin(txn, snapshots, c, c.type))

HostCall(op, pr, value) == HostCallIn(Limits, op, pr, value)

OpCallIn(lim, op, initialGas, addr, value) ==
    /\ CanDispatch
    /\ nsteps < lim.steps
    /\ nsteps' = nsteps + 1
    /\ LET \* f0: the frame after the base gas; pr: what the handler did up to
           \* c.host.Call
           Handled(f0, pr) ==
               IF f0.stop \/ ~pr.descend
               THEN /\ frames' = SetTop(IF f0.stop THEN f0 ELSE pr.frame)
                    /\ lastOp' = IF f0.stop
                                 THEN StepRec(op, Top, f0, FALSE, <<>>, FALSE, -1, value, 0, 0)
                                 ELSE StepRec(op, Top, pr.frame, TRUE, <<>>, FALSE, pr.pushed, value,
                                              pr.reserved, baseGas(op) + pr.charged)
                    /\ UNCHANGED <<txn, snapshots, lastRet>>
               ELSE HostCallIn(lim, op, pr, value)
           Charged(f0) == Handled(f0, opCall(f0, txn, rev, op, initialGas, addr, value, 0, 0, 0, 0))
       IN Charged(consumeGas(Top, baseGas(op)))
    /\ UNCHANGED <<interp, rev, msg, result>>

OpCall(op, initialGas, addr, value) == OpCallIn(Limits, op, initialGas, addr, value)

OpCreateIn(lim, op, value, length) ==
    /\ CanDispatch
    /\ nsteps < lim.steps
    /\ nsteps' = nsteps + 1
    /\ LET \* f0: the frame after the base gas; pr: what the handler did up to
           \* c.host.Call
           Handled(f0, pr) ==
               IF f0.stop \/ ~pr.descend
               THEN /\ frames' = SetTop(IF f0.stop THEN f0 ELSE pr.frame)
                    /\ lastOp' = IF f0.stop
                                 THEN StepRec(op, Top, f0, FALSE, <<>>, FALSE, -1, value, 0, 0)
                                 ELSE StepRec(op, Top, pr.frame, TRUE, <<>>, FALSE, pr.pushed, value,
                                              pr.reserved, baseGas(op) + pr.charged)
                    /\ UNCHANGED <<txn, snapshots, lastRet>>
               ELSE HostCallIn(lim, op, pr, value)
           Charged(f0) == Handled(f0, opCreate(f0, txn, rev, op, value, 0, length, 1))
       IN Charged(consumeGas(Top, baseGas(op)))
    /\ UNCHANGED <<interp, rev, msg, result>>

OpCreate(op, value, length) == OpCreateIn(Limits, op, value, length)

\* s.Run returned in the innermost frame: EVM.Run hands its result to
\* applyCall / applyCreate, which hands its own to the handler that called the
\* Host, or to Apply for the root frame
FrameReturn ==
    /\ frames # <<>>
    /\ Top.stop
    /\ LET f == Top
           run == EVMRunEnd(f)
           parent == frames[Len(frames) - 1]
           \* res: what applyCall / applyCreate returns; end: the rest of Write
           \* for the root frame of a transaction
           Settled(end) ==
               /\ frames' = <<>>
               /\ txn' = end.txn
               /\ msg' = end.msg
               /\ result' = [result EXCEPT !.kind = "output", !.output = end.output,
                                           !.post = [end.post EXCEPT !.upfront = result.post.upfront]]
               /\ UNCHANGED lastOp
           Resumed(res, back) ==
               /\ frames' = Append(SubSeq(frames, 1, Len(frames) - 2), back)
               /\ txn' = res.txn
               /\ lastOp' = [parent.pending EXCEPT !.pushed = IF res.err # ErrNone THEN 0 ELSE 1,
                                                   !.gasAfter = back.gas]
               /\ UNCHANGED <<msg, result>>
           Returned(res) ==
               /\ lastRet' = [valid |-> TRUE, type |-> f.type, depth |-> f.depth, ran |-> TRUE,
                              err |-> res.err, ret |-> res.ret, gasLeft |-> res.gasLeft,
                              frameErr |-> f.err, frameRet |-> f.ret, frameGas |-> f.gas,
                              evmGasLeft |-> run.gasLeft, hasSnap |-> TRUE, atReturn |-> res.txn,
                              atSnapshot |-> snapshots[f.snapshot + 1], before |-> txn]
               /\ IF Len(frames) = 1 /\ result.kind = "calling"
                  THEN /\ frames' = <<>>
                       /\ txn' = res.txn
                       /\ result' = [result EXCEPT !.kind = "returned"]
                       /\ UNCHANGED <<msg, lastOp>>
                  ELSE IF Len(frames) = 1
                  THEN Settled(WriteEnd(res.txn, rev, msg, res))
                  ELSE Resumed(res, opCallEnd(parent, res))
       IN Returned(IF f.type \in {KindCreate, KindCreate2}
                   THEN applyCreateEnd(txn, snapshots, rev, f, run)
                   ELSE applyCallEnd(txn, snapshots, f, run))
    /\ UNCHANGED <<interp, rev, snapshots, nsteps>>

Next ==
    \/ \E m \in Msgs : Write(m)
    \/ \E a \in EntryArgs : Call(a[1], a[2], a[3], a[4], a[5], a[6], a[7])
    \/ RunOffEnd
    \/ \E err \in Faults : OpFault(err)
    \/ OpArith
    \/ OpStop
    \/ \E a \in HaltArgs : OpHalt(a[1], a[2])
    \/ \E key \in Keys, val \in StoreVals : OpSStore(key, val)
    \/ \E a \in LogArgs : OpLog(a[1], a[2])
    \/ \E b \in Beneficiaries : OpSelfDestruct(b)
    \/ \E a \in CallArgs : OpCall(a[1], a[2], a[3], a[4])
    \/ \E a \in CreateArgs : OpCreate(a[1], a[2], a[3])
    \/ FrameReturn

Spec == Init /\ [][Next]_vars

\* ------------------------------------------------------------------------
\* Properties of the driver's frames (applyCall / applyCreate)
\* ------------------------------------------------------------------------

\* the last frame returned by the driver ran code and failed with an error
\* other than ExecutionReverted
FatalReturn ==
    /\ lastRet.valid
    /\ lastRet.ran
    /\ lastRet.err \notin {ErrNone, ErrExecutionReverted}

\* C1 as stated: every frame run by applyCall / applyCreate that returns an
\* error other than ExecutionReverted leaves the overlay equal to the one
\* captured by the snapshot taken at the start of the frame.
C1_AsStated == FatalReturn => lastRet.atReturn = lastRet.atSnapshot

\* C1: a frame run by applyCall / applyCreate that returns an error other
\* than ExecutionReverted leaves the overlay equal to the snapshot taken at the
\* start of the frame, except a creation that cannot pay for the storage of its
\* code before Homestead, which returns the error and keeps what the frame did.
C1_RevertAtomicity ==
    /\ FatalReturn /\ ~(lastRet.err = ErrCodeStoreOutOfGas /\ ~isRevisionOf(rev, Homestead))
         => lastRet.atReturn = lastRet.atSnapshot
    /\ FatalReturn /\ lastRet.err = ErrCodeStoreOutOfGas /\ ~isRevisionOf(rev, Homestead)
         => lastRet.atReturn = lastRet.before

\* a frame changed the overlay, failed, and the change is gone
C1_Witness ==
    /\ FatalReturn
    /\ lastRet.before # lastRet.atSnapshot
    /\ lastRet.atReturn = lastRet.atSnapshot

\* C2: a frame that ends with REVERT hands its payload and its remaining gas
\* to the caller and the overlay is rewound to the frame's snapshot; for every
\* other error the return value handed to the caller is empty.
C2_RevertPayload ==
    lastRet.valid /\ lastRet.ran =>
        /\ lastRet.frameErr = ErrExecutionReverted =>
              /\ lastRet.err = ErrExecutionReverted
              /\ lastRet.ret = lastRet.frameRet
              /\ lastRet.gasLeft = lastRet.frameGas
              /\ lastRet.atReturn = lastRet.atSnapshot
        /\ lastRet.err \notin {ErrNone, ErrExecutionReverted} => lastRet.ret = NoBytes

\* a frame that changed the overlay reverted with a payload and gas left
C2_Witness ==
    /\ lastRet.valid /\ lastRet.ran
    /\ lastRet.frameErr = ErrExecutionReverted
    /\ lastRet.ret # NoBytes
    /\ lastRet.gasLeft > 0
    /\ lastRet.before # lastRet.atSnapshot

\* C9: an interpreter frame that ends with an error other than
\* ExecutionReverted reports gas_left = 0 whatever gas it had left; a frame
\* that ends normally or with ExecutionReverted reports its remaining gas.
C9_GasOnError ==
    lastRet.valid /\ lastRet.ran =>
        lastRet.evmGasLeft = IF lastRet.frameErr \notin {ErrNone, ErrExecutionReverted}
                             THEN 0 ELSE lastRet.frameGas

\* a frame failed with gas still in hand and reported none
C9_Witness ==
    /\ lastRet.valid /\ lastRet.ran
    /\ lastRet.frameErr \notin {ErrNone, ErrExecutionReverted}
    /\ lastRet.frameGas > 0
    /\ lastRet.evmGasLeft = 0

\* ------------------------------------------------------------------------
\* Properties of Write
\* ------------------------------------------------------------------------

\* C3 as stated: a Write that returns an error from the pre-check leaves the
\* overlay exactly as it was before the call.
C3_AsStated == result.kind = "error" => txn = result.pre

\* C4 as stated: for a Write that returns an Output, what post-check credits
\* to the sender plus what it pays to the coinbase equals gas_price * msg.gas,
\* the amount pre-check deducted, and msg.gas holds its original value again.
C4_AsStated ==
    result.kind = "output" =>
        /\ result.post.upfront = result.msg0.gasPrice * result.msg0.gas
        /\ result.post.remaining + result.post.coinbaseFee = result.post.upfront
        /\ msg.gas = result.msg0.gas

\* C5 as stated: the refund applied is min(refund counter, gas_used / 2) with
\* gas_used = msg.gas minus the gas left by the execution; Output.GasLeft is
\* that gas left plus the refund and never exceeds msg.gas; the coinbase is
\* paid for at least half of gas_used.
C5_AsStated ==
    result.kind = "output" =>
        LET gasUsed == result.msg0.gas - result.post.execGasLeft
        IN /\ result.post.refund = Min(result.post.counter, gasUsed \div 2)
           /\ result.output.GasLeft = result.post.execGasLeft + result.post.refund
           /\ result.output.GasLeft <= result.msg0.gas
           /\ 2 * result.post.coinbaseFee >= result.msg0.gasPrice * gasUsed

\* ------------------------------------------------------------------------
\* Properties of the dispatch steps
\* ------------------------------------------------------------------------

CallOps == {CALL, CALLCODE, DELEGATECALL, STATICCALL}
CreateOps == {CREATE, CREATE2}

\* C6: no frame runs at a depth greater than 1024: a CALL, CALLCODE,
\* DELEGATECALL, STATICCALL, CREATE or CREATE2 executed at depth >= 1024
\* pushes 0, does not invoke Host.Call and gives back to the frame all the gas
\* it had reserved for the callee.
C6_DepthLimit ==
    /\ \A i \in DOMAIN frames : frames[i].depth <= CallDepthLimit
    /\ lastRet.valid => lastRet.depth <= CallDepthLimit
    /\ lastOp.op \in CallOps \cup CreateOps /\ lastOp.ran /\ lastOp.err = ErrNone
         /\ lastOp.depth >= CallDepthLimit
         => /\ lastOp.pushed = 0
            /\ ~lastOp.called
            /\ lastOp.muts = <<>>
            /\ lastOp.gasAfter = u64(lastOp.gasBefore - lastOp.cost + lastOp.reserved + U64)

\* a call and a creation were refused at the depth limit with gas reserved
C6_Witness ==
    /\ lastOp.op \in CallOps \cup CreateOps /\ lastOp.ran /\ lastOp.err = ErrNone
    /\ lastOp.depth = CallDepthLimit
    /\ lastOp.pushed = 0
    /\ lastOp.reserved > 0

\* the opcodes a static frame must refuse
WritingStep ==
    \/ lastOp.op \in {SSTORE, LOG, SELFDESTRUCT, CREATE, CREATE2}
    \/ lastOp.op = CALL /\ lastOp.value # 0

\* C7: in a frame whose static flag is set, SSTORE, LOGn, SELFDESTRUCT,
\* CREATE, CREATE2 and CALL with a non-zero value halt the frame with
\* WriteProtection before any Host mutation is issued; no storage write, log,
\* self-destruct, creation or value transfer originates from a static frame.
C7_StaticPurity ==
    /\ lastOp.static /\ lastOp.ran /\ WritingStep
         => /\ lastOp.err = errWriteProtection
            /\ lastOp.muts = <<>>
            /\ ~lastOp.called
    /\ lastOp.static
         => \A i \in DOMAIN lastOp.muts :
                /\ lastOp.muts[i].kind = "Call"
                /\ lastOp.op \in CallOps
                /\ lastOp.op = CALL => lastOp.value = 0
    /\ \A i \in DOMAIN frames :
           i > 1 /\ frames[i - 1].static
             => /\ frames[i].static
                /\ frames[i].type \notin {KindCreate, KindCreate2}
                /\ frames[i].type = KindCall => frames[i].value = 0

\* a static frame ran one of the writing opcodes and halted
C7_Witness ==
    /\ lastOp.static /\ lastOp.ran /\ WritingStep
    /\ lastOp.err = errWriteProtection
    /\ lastOp.gasAfter > 0

\* C10 as stated: the whole gas charge of an opcode with a Host side effect
\* is consumed before the side effect is issued, and an opcode that runs out
\* of gas issues no Host mutation.
C10_AsStated ==
    /\ lastOp.err = errOutOfGas => lastOp.muts = <<>>
    /\ \A i \in DOMAIN lastOp.muts :
           lastOp.muts[i].gas = u64(lastOp.gasBefore - lastOp.cost + U64)

\* ------------------------------------------------------------------------
\* The dispatch loop on concrete bytecode: PUSHn, JUMP, JUMPI, JUMPDEST, STOP
\* ------------------------------------------------------------------------

JUMP == "JUMP"
JUMPI == "JUMPI"
JUMPDEST == "JUMPDEST"
PUSH == "PUSH"

\* opcode bytes
ByteStop == 0
ByteJump == 86
ByteJumpi == 87
ByteJumpDest == 91
BytePush1 == 96
BytePush32 == 127
ByteSDiv == 5
ByteSar == 29
ByteDup1 == 128
ByteSwap1 == 144
ByteLog0 == 160

DUP == "DUP"
SWAP == "SWAP"
SDIV == "SDIV"
SAR == "SAR"

stackSize == 1024

isPushOp(b) == b >= BytePush1 /\ b <= BytePush32

\* DUP1..DUP16, SWAP1..SWAP16, LOG0..LOG4
isDupOp(b) == b >= ByteDup1 /\ b < ByteDup1 + 16

isSwapOp(b) == b >= ByteSwap1 /\ b < ByteSwap1 + 16

isLogOp(b) == b >= ByteLog0 /\ b <= ByteLog0 + 4

\* the n the handler of a DUPn, SWAPn or LOGn is made with (opLog takes the
\* number of topics plus one)
RangeArg(b) ==
    CASE isDupOp(b) -> b - ByteDup1 + 1
      [] isSwapOp(b) -> b - ByteSwap1 + 1
      [] isLogOp(b) -> b - ByteLog0 + 1
      [] OTHER -> 0

\* the n of PUSHn
PushLen(b) == b - BytePush1 + 1

\* further opcode bytes of the dispatch table
OpByte == [CALL |-> 241, BYTE |-> 26, ADD |-> 1, POP |-> 80, MSTORE8 |-> 83, MSIZE |-> 89,
           RETURNDATASIZE |-> 61, RETURN |-> 243]

\* the handler the dispatch table holds for an opcode byte ("none": no entry)
OpOf(b) ==
    CASE b = ByteStop -> STOP
      [] b = OpByte.CALL -> CALL
      [] b = ByteJump -> JUMP
      [] b = ByteJumpi -> JUMPI
      [] b = ByteJumpDest -> JUMPDEST
      [] isPushOp(b) -> PUSH
      [] isDupOp(b) -> DUP
      [] isSwapOp(b) -> SWAP
      [] isLogOp(b) -> LOG
      [] b = ByteSDiv -> SDIV
      [] b = ByteSar -> SAR
      [] OTHER -> "none"

\* the stack column of the dispatch table: the depth the loop checks. The
\* entries of PUSHn, DUPn, SWAPn and LOGn ask for nothing, their handlers
\* check what they need
stackMin(op) ==
    CASE op = JUMP -> 1
      [] op = "BYTE" -> 2
      [] op = CALL -> 7
      [] op = JUMPI -> 2
      [] op = SDIV -> 2
      [] op = SAR -> 2
      [] OTHER -> 0

\* the gas column of the dispatch table for the opcodes of the bytecode run
jumpGas(op) ==
    CASE op = JUMP -> 8
      [] op = "BYTE" -> 3
      [] op = JUMPI -> 10
      [] op = JUMPDEST -> 1
      [] op = PUSH -> 3
      [] op = DUP -> 3
      [] op = SWAP -> 3
      [] op = LOG -> 375
      [] op = SDIV -> 5
      [] op = SAR -> 3
      [] OTHER -> 0

\* bitmap.setCode: the positions of the JUMPDEST bytes, the bytes inside the
\* immediate of a PUSH1..PUSH32 skipped
RECURSIVE setCodeFrom(_, _)
setCodeFrom(code, i) ==
    IF i >= Len(code) THEN {}
    ELSE IF isPushOp(code[i + 1]) THEN setCodeFrom(code, i + PushLen(code[i + 1]) + 1)
    ELSE (IF code[i + 1] = ByteJumpDest THEN {i} ELSE {}) \cup setCodeFrom(code, i + 1)

setCode(code) == setCodeFrom(code, 0)

\* bitmap.isSet
isSet(bitmap, i) == i \in bitmap

\* big.Int.BitLen
RECURSIVE BitLen(_)
BitLen(x) == IF x = 0 THEN 0 ELSE 1 + BitLen(x \div 2)

\* big.Int.Uint64: the low word
Uint64(x) == x % U64

\* the bit length from which a destination is refused: one bit less than the
\* width of a machine word (63 for the 64-bit words of the source)
JumpBitLen == WordBits - 1

\* a validation that trusts the low word of the destination
validJumpdestLowWord(s, dest) ==
    IF Uint64(dest) >= Len(s.code) THEN FALSE ELSE isSet(s.bitmap, Uint64(dest))

\* state.validJumpdest
validJumpdest(s, dest) ==
    LET udest == Uint64(dest)
    IN IF BitLen(dest) >= JumpBitLen \/ udest >= Len(s.code) THEN FALSE
       ELSE isSet(s.bitmap, udest)

\* state.pop on the stack (top last)
popped(s) == [s EXCEPT !.stack = SubSeq(s.stack, 1, Len(s.stack) - 1)]

top(s) == s.stack[Len(s.stack)]

\* opJump
opJump(s) ==
    LET dest == top(s)
        s1 == popped(s)
    IN IF validJumpdest(s1, dest) THEN [s1 EXCEPT !.ip = Uint64(dest) - 1]
       ELSE exit(s1, errInvalidJump)

\* opJumpi
opJumpi(s) ==
    LET dest == top(s)
        cond == top(popped(s))
        s1 == popped(popped(s))
    IN IF cond # 0
       THEN IF validJumpdest(s1, dest) THEN [s1 EXCEPT !.ip = Uint64(dest) - 1]
            ELSE exit(s1, errInvalidJump)
       ELSE s1

\* big.Int.SetBytes: the big-endian value of a byte string
RECURSIVE SetBytes(_)
SetBytes(b) ==
    IF b = <<>> THEN 0 ELSE 256 * SetBytes(SubSeq(b, 1, Len(b) - 1)) + b[Len(b)]

\* opPush(n): a push that runs over the end of the code reads the bytes that
\* are left followed by n zero bytes
opPush(s, n) ==
    LET ins == s.code
        rest == SubSeq(ins, s.ip + 2, Len(ins))
        v == IF s.ip + 1 + n > Len(ins) THEN SetBytes(rest \o [i \in 1..n |-> 0])
             ELSE SetBytes(SubSeq(ins, s.ip + 2, s.ip + 1 + n))
    IN [s EXCEPT !.stack = Append(s.stack, v), !.ip = s.ip + n]

\* acquireState / EVM.Run: the state set up for a bytecode, with the operands
\* earlier instructions left on the stack
JumpRunStart(code, stack, gas) ==
    [code |-> code, bitmap |-> setCode(code), ip |-> 0, stack |-> stack, gas |-> gas, consumed |-> 0,
     static |-> FALSE, address |-> "A", memory |-> 0, lastGasCost |-> 0,
     stop |-> FALSE, err |-> ErrNone, last |-> NoInstr]

\* one iteration of the loop of state.Run up to the handler: the stack and
\* gas checks of the dispatch table entry
loopEnter(s, op) ==
    IF Len(s.stack) < stackMin(op) THEN exit(s, errStackUnderflow)
    ELSE consumeGas(s, jumpGas(op))

\* the rest of the iteration, after the handler: the overflow check and ip++
loopLeave(s) ==
    IF Len(s.stack) > stackSize THEN exit(s, errStackOverflow)
    ELSE [s EXCEPT !.ip = s.ip + 1]

\* what is recorded of an instruction dispatched in state s: s0 is the state
\* the checks of the loop left
Dispatched(s, s0, op, need) ==
    [NoInstr EXCEPT !.op = op, !.ran = ~s0.stop, !.sp = Len(s.stack), !.need = need,
                     !.gas = s.gas]

\* bytes the bytecodes are made of: STOP, an opcode without handler, JUMP,
\* JUMPI, JUMPDEST, PUSH1, PUSH2
JumpBytes == {ByteStop, 12, ByteJump, ByteJumpi, ByteJumpDest, BytePush1, 97}

MaxCode == 3

JumpCodes == UNION { [1..n -> JumpBytes] : n \in 1..MaxCode }

\* destinations left on the stack: inside and past the code, at the bit
\* length limit, and beyond a machine word with a small low word
JumpDests == {0, 1, 2, 3, Pow2(WordBits - 2), U64 + 1, U64 + 2}

\* stacks at the start of the run: empty, or a condition under a destination
JumpStacks == {<<>>} \cup { <<c, d>> : c \in {0, 1}, d \in JumpDests }

JumpGases == {9, 100}

InitJump ==
    /\ rev = Istanbul
    /\ txn = EmptyTxn
    /\ snapshots = <<>>
    /\ msg = NoMsg
    /\ frames = <<>>
    /\ result = NoResult
    /\ nsteps = 0
    /\ lastOp = NoOp
    /\ lastRet = NoRet
    /\ interp \in { JumpRunStart(c, st, g) : c \in JumpCodes, st \in JumpStacks, g \in JumpGases }

NotJumping == <<rev, txn, snapshots, msg, frames, result, nsteps, lastOp, lastRet>>

\* the next opcode of the bytecode run
CurOp == OpOf(interp.code[interp.ip + 1])

CanStep == ~interp.stop /\ interp.ip < Len(interp.code)

\* ip >= codeSize: the loop halts
StepEnd ==
    /\ ~interp.stop
    /\ interp.ip >= Len(interp.code)
    /\ interp' = halt(interp)
    /\ UNCHANGED NotJumping

\* no entry in the dispatch table
StepNotFound ==
    /\ CanStep
    /\ CurOp = "none"
    /\ interp' = [exit(interp, errOpCodeNotFound) EXCEPT !.last = NoInstr]
    /\ UNCHANGED NotJumping

StepStop ==
    /\ CanStep
    /\ CurOp = STOP
    /\ LET s0 == loopEnter(interp, STOP)
           s1 == IF s0.stop THEN s0 ELSE loopLeave(halt(s0))
       IN interp' = [s1 EXCEPT !.last = Dispatched(interp, s0, STOP, 0)]
    /\ UNCHANGED NotJumping

StepJumpDest ==
    /\ CanStep
    /\ CurOp = JUMPDEST
    /\ LET s0 == loopEnter(interp, JUMPDEST)
           s1 == IF s0.stop THEN s0 ELSE loopLeave(s0)
       IN interp' = [s1 EXCEPT !.last = Dispatched(interp, s0, JUMPDEST, 0)]
    /\ UNCHANGED NotJumping

StepPush ==
    /\ CanStep
    /\ CurOp = PUSH
    /\ LET s0 == loopEnter(interp, PUSH)
           s1 == IF s0.stop THEN s0 ELSE loopLeave(opPush(s0, PushLen(interp.code[interp.ip + 1])))
       IN interp' = [s1 EXCEPT !.last = Dispatched(interp, s0, PUSH, 0)]
    /\ UNCHANGED NotJumping

StepJump ==
    /\ CanStep
    /\ CurOp = JUMP
    /\ LET s0 == loopEnter(interp, JUMP)
           s1 == IF s0.stop THEN s0 ELSE loopLeave(opJump(s0))
       IN interp' = [s1 EXCEPT
                        !.last = IF s0.stop THEN Dispatched(interp, s0, JUMP, 1)
                                 ELSE [Dispatched(interp, s0, JUMP, 1) EXCEPT !.dest = top(s0)]]
    /\ UNCHANGED NotJumping

StepJumpi ==
    /\ CanStep
    /\ CurOp = JUMPI
    /\ LET s0 == loopEnter(interp, JUMPI)
           s1 == IF s0.stop THEN s0 ELSE loopLeave(opJumpi(s0))
       IN interp' = [s1 EXCEPT
                        !.last = IF s0.stop THEN Dispatched(interp, s0, JUMPI, 2)
                                 ELSE [Dispatched(interp, s0, JUMPI, 2) EXCEPT
                                          !.dest = top(s0), !.cond = top(popped(s0))]]
    /\ UNCHANGED NotJumping

NextJump ==
    \/ StepEnd
    \/ StepNotFound
    \/ StepStop
    \/ StepJumpDest
    \/ StepPush
    \/ StepJump
    \/ StepJumpi

SpecJump == InitJump /\ [][NextJump]_vars

\* position p of the code holds an opcode (not the immediate of a PUSH)
RECURSIVE IsInstr(_, _)
IsInstr(code, p) ==
    \/ p = 0
    \/ \E q \in 0..(p - 1) :
          /\ IsInstr(code, q)
          /\ p = q + 1 + (IF isPushOp(code[q + 1]) THEN PushLen(code[q + 1]) ELSE 0)

\* position d lies inside the immediate of a PUSH1..PUSH32
InPushData(code, d) ==
    \E p \in 0..(d - 1) :
        /\ IsInstr(code, p)
        /\ isPushOp(code[p + 1])
        /\ d <= p + PushLen(code[p + 1])

\* the destination the claim accepts
JumpTargetOk(code, d) ==
    /\ d < Len(code)
    /\ BitLen(d) < JumpBitLen
    /\ code[d + 1] = ByteJumpDest
    /\ ~InPushData(code, d)

\* the last instruction was a JUMP, or a JUMPI with a non-zero condition
Jumped ==
    /\ interp.last.ran
    /\ interp.last.op = JUMP \/ (interp.last.op = JUMPI /\ interp.last.cond # 0)

\* C8: a JUMP, or a JUMPI with non-zero condition, continues at its
\* destination if and only if the destination is smaller than the code length,
\* has a bit length below the limit, holds the byte 0x5B and does not lie inside
\* the immediate of a PUSH1..PUSH32; otherwise the frame halts with InvalidJump.
C8_JumpValidity ==
    Jumped =>
        IF JumpTargetOk(interp.code, interp.last.dest)
        THEN ~interp.stop /\ interp.err = ErrNone /\ interp.ip = interp.last.dest
        ELSE interp.stop /\ interp.err = errInvalidJump

\* a jump to a 0x5B byte inside the immediate of a PUSH was refused
C8_Witness ==
    /\ Jumped
    /\ interp.last.dest < Len(interp.code)
    /\ interp.code[interp.last.dest + 1] = ByteJumpDest
    /\ InPushData(interp.code, interp.last.dest)
    /\ interp.err = errInvalidJump

\* ------------------------------------------------------------------------
\* Gas of a frame
\* ------------------------------------------------------------------------

\* C11 as stated: the gas of a frame changes only through consumeGas, so it
\* is always the gas the frame started with minus what consumeGas took.
C11_AsStated ==
    \A i \in DOMAIN frames : frames[i].gas = frames[i].gasLimit - frames[i].consumed

\* C11: the gas of a frame is lowered only by consumeGas, which takes exactly g
\* or halts the frame with OutOfGas and leaves the gas as it is; it is raised
\* only by opCall / opCreate, which add to it (modulo 2^64) the gas reserved
\* for a callee that was not entered and the gas a callee handed back.
C11_GasOnlyConsumed ==
    /\ \A i \in DOMAIN frames :
           frames[i].gas = u64(frames[i].gasLimit - frames[i].consumed + frames[i].returned)
    /\ lastOp.err = errOutOfGas => lastOp.gasAfter <= lastOp.gasBefore

\* a frame ran out of gas with gas in hand, and a frame got gas back
C11_Witness ==
    /\ lastOp.err = errOutOfGas /\ lastOp.gasAfter > 0
    /\ \E i \in DOMAIN frames : frames[i].returned > 0 /\ frames[i].consumed > 0

\* ------------------------------------------------------------------------
\* Interpreter: the stack and its words
\* ------------------------------------------------------------------------

\* the widest PUSH of the bytecodes of the stack runs: PUSH2
WidestPush == BytePush1 + 1

\* the width of a stack word in bytes: that of the widest PUSH (32, of PUSH32,
\* in the source). The integers of the checker hold what a PUSH of two bytes
\* reads past the end of the code, and no more
WordBytes == PushLen(WidestPush)

\* 2 ** 256 and 2 ** 256 - 1, for words of WordBytes bytes
tt256 == Pow2(8 * WordBytes)

tt256m1 == tt256 - 1

\* toU256: x.And(x, tt256m1) of a negative or too wide x is x modulo 2 ** 256
toU256(x) == IF x < 0 \/ BitLen(x) > 8 * WordBytes THEN x % tt256 ELSE x

\* to256: the signed reading of a word
to256(x) == IF BitLen(x) > 8 * WordBytes - 1 THEN x - tt256 ELSE x

\* big.Int.Sign and big.Int.Abs
Sign(x) == IF x < 0 THEN -1 ELSE IF x = 0 THEN 0 ELSE 1

Abs(x) == IF x < 0 THEN -x ELSE x

\* state.stackAtLeast
stackAtLeast(s, n) == Len(s.stack) >= n

\* state.peekAt: the n-th value from the top
peekAt(s, n) == s.stack[Len(s.stack) - n + 1]

\* state.swap: the top and the value n below it change places
swap(s, n) ==
    LET sp == Len(s.stack)
    IN [s EXCEPT !.stack = [s.stack EXCEPT ![sp] = s.stack[sp - n], ![sp - n] = s.stack[sp]]]

\* opDup(n)
opDup(s, n) ==
    IF ~stackAtLeast(s, n) THEN exit(s, errStackUnderflow)
    ELSE [s EXCEPT !.stack = Append(s.stack, peekAt(s, n))]

\* opSwap(n)
opSwap(s, n) ==
    IF ~stackAtLeast(s, n + 1) THEN exit(s, errStackUnderflow)
    ELSE swap(s, n)

\* the stack of opLog(n), n the number of topics plus one: the static check,
\* the depth check and the pops; the read of the data, the log and the
\* charges are those of opLog on the operands popped
opLogPops(s, n) ==
    LET size == n - 1
        Popped(mStart, mSize) ==
            opLog([s EXCEPT !.stack = SubSeq(s.stack, 1, Len(s.stack) - 2 - size)],
                  EmptyTxn, size, mStart, mSize).frame
    IN IF inStaticCall(s) THEN exit(s, errWriteProtection)
       ELSE IF ~stackAtLeast(s, 2 + size) THEN exit(s, errStackUnderflow)
       ELSE Popped(peekAt(s, 1), peekAt(s, 2))

\* opSDiv: the quotient of the magnitudes with the sign put back
opSDiv(s) ==
    LET a == to256(top(s))
        b == to256(top(popped(s)))
        q == Abs(a) \div Abs(b)
        res == IF b = 0 THEN 0 ELSE toU256(IF Sign(a) # Sign(b) THEN -q ELSE q)
    IN [s EXCEPT !.stack = Append(SubSeq(s.stack, 1, Len(s.stack) - 2), res)]

\* equalOrOverflowsUint256: the shift count has more bits than a count below
\* the width of a word needs (b.BitLen() > 8 for 256-bit words)
equalOrOverflowsUint256(b) == BitLen(b) > BitLen(8 * WordBytes - 1)

\* opSar in revision r; Rsh of a negative number rounds down
opSar(s, r) ==
    LET shift == top(s)
        value == to256(top(popped(s)))
        res == IF equalOrOverflowsUint256(shift)
               THEN (IF Sign(value) >= 0 THEN 0 ELSE tt256m1)
               ELSE toU256(value \div Pow2(Uint64(shift)))
    IN IF ~isRevisionOf(r, Constantinople) THEN exit(s, errOpCodeNotFound)
       ELSE [s EXCEPT !.stack = Append(SubSeq(s.stack, 1, Len(s.stack) - 2), res)]

\* bytes the bytecodes of the stack runs are made of: SDIV, an opcode without
\* handler, SAR, PUSH1 .. PUSH(WordBytes), DUP1, DUP2, SWAP1, LOG0, LOG1
StackBytes ==
    {ByteSDiv, 12, ByteSar, ByteDup1, ByteDup1 + 1, ByteSwap1, ByteLog0, ByteLog0 + 1}
        \cup BytePush1..WidestPush

MaxStackCode == 2

StackCodes == UNION { [1..n -> StackBytes] : n \in 1..MaxStackCode }

\* words earlier instructions left on the stack: 0, 1, the smallest signed
\* word and -1
StackWords == {0, 1, Pow2(8 * WordBytes - 1), tt256m1}

\* the depth of the deep stacks is within MaxDeep of the limit
MaxDeep == 1

\* stacks at the start of a run: up to two words, and stacks of ones at and
\* just below the limit
StackStacks ==
    {<<>>} \cup { <<a>> : a \in StackWords } \cup { <<a, b>> : a \in StackWords, b \in StackWords }
        \cup { [i \in 1..(stackSize - d) |-> 1] : d \in 0..MaxDeep }

StackGases == {2, 1000}

InitStack ==
    /\ rev \in {Byzantium, Istanbul}
    /\ txn = EmptyTxn
    /\ snapshots = <<>>
    /\ msg = NoMsg
    /\ frames = <<>>
    /\ result = NoResult
    /\ nsteps = 0
    /\ lastOp = NoOp
    /\ lastRet = NoRet
    /\ interp \in { [JumpRunStart(c, st, g) EXCEPT !.static = sc] :
                      c \in StackCodes, st \in StackStacks, g \in StackGases, sc \in BOOLEAN }

CurByte == interp.code[interp.ip + 1]

StepDup ==
    /\ CanStep
    /\ CurOp = DUP
    /\ LET s0 == loopEnter(interp, DUP)
           s1 == IF s0.stop THEN s0 ELSE loopLeave(opDup(s0, RangeArg(CurByte)))
       IN interp' = [s1 EXCEPT !.last = Dispatched(interp, s0, DUP, RangeArg(CurByte))]
    /\ UNCHANGED NotJumping

StepSwap ==
    /\ CanStep
    /\ CurOp = SWAP
    /\ LET s0 == loopEnter(interp, SWAP)
           s1 == IF s0.stop THEN s0 ELSE loopLeave(opSwap(s0, RangeArg(CurByte)))
       IN interp' = [s1 EXCEPT !.last = Dispatched(interp, s0, SWAP, RangeArg(CurByte) + 1)]
    /\ UNCHANGED NotJumping

StepLog ==
    /\ CanStep
    /\ CurOp = LOG
    /\ LET s0 == loopEnter(interp, LOG)
           s1 == IF s0.stop THEN s0 ELSE loopLeave(opLogPops(s0, RangeArg(CurByte)))
       IN interp' = [s1 EXCEPT !.last = Dispatched(interp, s0, LOG, RangeArg(CurByte) + 1)]
    /\ UNCHANGED NotJumping

StepSDiv ==
    /\ CanStep
    /\ CurOp = SDIV
    /\ LET s0 == loopEnter(interp, SDIV)
           s1 == IF s0.stop THEN s0 ELSE loopLeave(opSDiv(s0))
       IN interp' = [s1 EXCEPT !.last = Dispatched(interp, s0, SDIV, 2)]
    /\ UNCHANGED NotJumping

StepSar ==
    /\ CanStep
    /\ CurOp = SAR
    /\ LET s0 == loopEnter(interp, SAR)
           s1 == IF s0.stop THEN s0 ELSE loopLeave(opSar(s0, rev))
       IN interp' = [s1 EXCEPT !.last = Dispatched(interp, s0, SAR, 2)]
    /\ UNCHANGED NotJumping

NextStack ==
    \/ StepEnd
    \/ StepNotFound
    \/ StepPush
    \/ StepDup
    \/ StepSwap
    \/ StepLog
    \/ StepSDiv
    \/ StepSar

SpecStack == InitStack /\ [][NextStack]_vars

\* the last instruction was dispatched on a stack less deep than it needs
Underfed == interp.last.op # "none" /\ interp.last.sp < interp.last.need

\* the depth of the last instruction is checked by the loop (the dispatch
\* table holds it), not by the handler
TableChecked == interp.last.need <= stackMin(interp.last.op)

\* C12 as stated: a running frame has at most 1024 values on its stack; an
\* instruction dispatched on a stack less deep than it needs halts the frame
\* with StackUnderflow and the stack as it was; an instruction that leaves more
\* than 1024 values halts the frame with StackOverflow.
C12_AsStated ==
    /\ ~interp.stop => Len(interp.stack) <= stackSize
    /\ Underfed => /\ interp.stop
                   /\ interp.err = errStackUnderflow
                   /\ Len(interp.stack) = interp.last.sp
    /\ Len(interp.stack) > stackSize => interp.stop /\ interp.err = errStackOverflow

\* C12: a running frame has at most 1024 values on its stack; an instruction
\* dispatched on a stack less deep than it needs halts the frame with the stack
\* as it was: with StackUnderflow before gas is charged and before the handler
\* runs when the dispatch table holds the depth, and for DUPn, SWAPn and LOGn,
\* whose handlers check the depth, with OutOfGas when the gas does not cover
\* the charge of the opcode, with WriteProtection for a LOGn in a static frame
\* and with StackUnderflow otherwise; an instruction that leaves more than 1024
\* values halts the frame with StackOverflow.
C12_StackDepth ==
    /\ ~interp.stop => Len(interp.stack) <= stackSize
    /\ Underfed =>
          /\ interp.stop
          /\ Len(interp.stack) = interp.last.sp
          /\ interp.err =
                IF TableChecked THEN errStackUnderflow
                ELSE IF ~interp.last.ran THEN errOutOfGas
                ELSE IF interp.last.op = LOG /\ interp.static THEN errWriteProtection
                ELSE errStackUnderflow
          /\ TableChecked => ~interp.last.ran /\ interp.gas = interp.last.gas
    /\ Len(interp.stack) > stackSize => interp.stop /\ interp.err = errStackOverflow

\* a handler refused a stack the dispatch table had let through: a SWAP1 or a
\* DUP2 on one value, a LOG1 on two
C12_Witness ==
    /\ Underfed
    /\ interp.last.ran
    /\ interp.last.sp > 0
    /\ interp.err = errStackUnderflow

\* C13 as stated: every value on the stack of the frame, after any instruction
\* of any bytecode, is at least 0 and smaller than 2 ** 256 (the width of a
\* word), the value of a PUSHn that runs past the end of the code included.
C13_AsStated ==
    \A i \in DOMAIN interp.stack : interp.stack[i] >= 0 /\ interp.stack[i] < tt256

\* ------------------------------------------------------------------------
\* Interpreter: the memory of a frame
\* ------------------------------------------------------------------------

\* the number of memory accesses of a frame
MaxAccess == 2

\* offsets and sizes of the accesses: inside the first words, at the first
\* number of words whose square leaves the machine word, at and past the
\* limit, past the machine word
MemOperands ==
    {0, 1, 32, 33, 32 * Pow2((WordBits + 1) \div 2), memLimit, memLimit + 1, U64 + 1}

MemGases == {10, 20000}

InitMem ==
    /\ rev = Istanbul
    /\ txn = EmptyTxn
    /\ snapshots = <<>>
    /\ msg = NoMsg
    /\ frames = <<>>
    /\ result = NoResult
    /\ nsteps = 0
    /\ lastOp = NoOp
    /\ lastRet = NoRet
    /\ interp \in { JumpRunStart(<<ByteStop>>, <<>>, g) : g \in MemGases }

\* what is recorded of a memory access of the frame
Accessed(op, offset, size) ==
    [NoInstr EXCEPT !.op = op, !.ran = TRUE, !.gas = interp.gas, !.offset = offset, !.size = size,
                    !.memory = interp.memory, !.lastGasCost = interp.lastGasCost]

\* a handler calls checkMemory (MLOAD, MSTORE, MSTORE8, the copies, the
\* return area of a call)
CheckMemory ==
    /\ ~interp.stop
    /\ nsteps < MaxAccess
    /\ \E offset \in MemOperands, size \in MemOperands \ {0} :
          interp' = [checkMemory(interp, offset, size) EXCEPT
                        !.last = Accessed("checkMemory", offset, size)]
    /\ nsteps' = nsteps + 1
    /\ UNCHANGED <<rev, txn, snapshots, msg, frames, result, lastOp, lastRet>>

\* a handler reads a range with get2 (SHA3, LOGn, RETURN, REVERT, the input
\* of a call)
Get2 ==
    /\ ~interp.stop
    /\ nsteps < MaxAccess
    /\ \E offset \in MemOperands, size \in MemOperands :
          interp' = [get2(interp, offset, size) EXCEPT !.last = Accessed("get2", offset, size)]
    /\ nsteps' = nsteps + 1
    /\ UNCHANGED <<rev, txn, snapshots, msg, frames, result, lastOp, lastRet>>

NextMem ==
    \/ CheckMemory
    \/ Get2

SpecMem == InitMem /\ [][NextMem]_vars

\* the cost of a memory of w words
MemoryCost(w) == 3 * w + (w * w) \div 512

\* C14 as stated: the memory length is a multiple of 32 and no access lowers
\* it; an access of size 0 charges nothing and leaves the memory as it is; an
\* access of a size above 0 whose offset or size exceeds the limit halts the
\* frame with GasUintOverflow; an access that grows the memory to w words
\* charges 3w + w*w/512 minus what the frame was charged for memory before.
C14_AsStated ==
    /\ interp.memory % 32 = 0
    /\ interp.memory >= interp.last.memory
    /\ interp.last.ran /\ interp.last.size = 0 =>
          /\ ~interp.stop
          /\ interp.gas = interp.last.gas
          /\ interp.memory = interp.last.memory
    /\ /\ interp.last.ran
       /\ interp.last.size > 0
       /\ interp.last.offset > memLimit \/ interp.last.size > memLimit
       => interp.stop /\ interp.err = errGasUintOverflow
    /\ interp.memory > interp.last.memory =>
          interp.last.gas - interp.gas
              = MemoryCost(interp.memory \div 32) - interp.last.lastGasCost

\* ------------------------------------------------------------------------
\* Overlay: storage writes across the transactions of a Transition
\* ------------------------------------------------------------------------

\* the number of operations on the overlay
MaxOverlayOps == 3

OverlayRevs == {Frontier, Constantinople, Petersburg, Istanbul}

\* accounts written through the Host: A holds 1 at k1 in the backend, X holds
\* nothing there, N is no account of the backend
OverlayAddrs == {"A", "X", "N"}

OverlayValues == {0, 1, 2}

SStoreGas == 100000

\* the last operation on the overlay: the value set_state was given, what
\* get_state and get_committed_state returned before it, the status it
\* returned, the charge of the SSTORE, the overlay before it and the operation
\* before it
NoTxnOp == [op |-> "none", addr |-> "A", key |-> "k1", value |-> 0, status |-> "none", current |-> 0,
            original |-> 0, cost |-> 0, before |-> EmptyTxn, prev |-> <<>>]

Forget(r) == [r EXCEPT !.before = EmptyTxn, !.prev = <<>>]

InitOverlay ==
    /\ rev \in OverlayRevs
    /\ txn = EmptyTxn
    /\ snapshots = <<>>
    /\ msg = NoMsg
    /\ frames = <<>>
    /\ result = NoResult
    /\ nsteps = 0
    /\ lastOp = NoTxnOp
    /\ lastRet = NoRet
    /\ interp \in { [JumpRunStart(<<ByteStop>>, <<>>, SStoreGas) EXCEPT !.address = a] : a \in {"A", "X"} }

OverlayRec(op, a, k, v, status, cost) ==
    [op |-> op, addr |-> a, key |-> k, value |-> v, status |-> status,
     current |-> GetState(txn, a, k), original |-> GetCommittedState(txn, a, k), cost |-> cost,
     before |-> txn, prev |-> Forget(lastOp)]

\* Host.SetStorage: Txn.SetStorage on any account
OvSetStorage ==
    /\ nsteps < MaxOverlayOps
    /\ \E a \in OverlayAddrs, k \in Keys, v \in OverlayValues :
          LET Set(st) ==
                  /\ txn' = st.txn
                  /\ lastOp' = OverlayRec("SetStorage", a, k, v, st.status, 0)
          IN Set(SetStorage(txn, rev, a, k, v))
    /\ nsteps' = nsteps + 1
    /\ UNCHANGED <<rev, snapshots, msg, frames, result, lastRet, interp>>

\* an SSTORE of the frame
OvSStore ==
    /\ nsteps < MaxOverlayOps
    /\ ~interp.stop
    /\ \E k \in Keys, v \in OverlayValues :
          LET Run(st, r) ==
                  /\ txn' = r.txn
                  /\ interp' = r.frame
                  /\ lastOp' = OverlayRec("SSTORE", interp.address, k, v, st.status,
                                          interp.gas - r.frame.gas)
          IN Run(SetStorage(txn, rev, interp.address, k, v), opSStore(interp, txn, rev, k, v))
    /\ nsteps' = nsteps + 1
    /\ UNCHANGED <<rev, snapshots, msg, frames, result, lastRet>>

\* Txn.CreateAccount
OvCreateAccount ==
    /\ nsteps < MaxOverlayOps
    /\ \E a \in OverlayAddrs :
          /\ txn' = CreateAccount(txn, a)
          /\ lastOp' = OverlayRec("CreateAccount", a, "k1", 0, "none", 0)
    /\ nsteps' = nsteps + 1
    /\ UNCHANGED <<rev, snapshots, msg, frames, result, lastRet, interp>>

\* Txn.Suicide
OvSuicide ==
    /\ nsteps < MaxOverlayOps
    /\ \E a \in OverlayAddrs :
          /\ txn' = Suicide(txn, a)
          /\ lastOp' = OverlayRec("Suicide", a, "k1", 0, "none", 0)
    /\ nsteps' = nsteps + 1
    /\ UNCHANGED <<rev, snapshots, msg, frames, result, lastRet, interp>>

\* the end of Transition.Write: CleanDeleteObjects; the next transaction runs
\* in a new frame
OvCleanDelete ==
    /\ nsteps < MaxOverlayOps
    /\ txn' = CleanDeleteObjects(txn, IF isRevisionOf(rev, Byzantium) THEN TRUE
                                      ELSE isRevisionOf(rev, SpuriousDragon))
    /\ lastOp' = OverlayRec("CleanDeleteObjects", "A", "k1", 0, "none", 0)
    /\ interp' = [JumpRunStart(<<ByteStop>>, <<>>, SStoreGas) EXCEPT !.address = interp.address]
    /\ nsteps' = nsteps + 1
    /\ UNCHANGED <<rev, snapshots, msg, frames, result, lastRet>>

NextOverlay ==
    \/ OvSetStorage
    \/ OvSStore
    \/ OvCreateAccount
    \/ OvSuicide
    \/ OvCleanDelete

SpecOverlay == InitOverlay /\ [][NextOverlay]_vars

\* the revisions of net gas metering: Constantinople, and from Istanbul on
NetMetering(r) ==
    isRevisionOf(r, Istanbul) \/ (isRevisionOf(r, Constantinople) /\ ~isRevisionOf(r, Petersburg))

\* the status the claim gives a write of value new
Classified(r, original, current, new) ==
    IF new = current THEN StorageUnchanged
    ELSE IF ~NetMetering(r)
    THEN (IF current = 0 THEN StorageAdded ELSE IF new = 0 THEN StorageDeleted ELSE StorageModified)
    ELSE IF original = current
    THEN (IF original = 0 THEN StorageAdded ELSE IF new = 0 THEN StorageDeleted ELSE StorageModified)
    ELSE StorageModifiedAgain

\* the last operation was a set_state, of the Host or of an SSTORE that
\* reached the Host
Wrote == lastOp.op = "SetStorage" \/ (lastOp.op = "SSTORE" /\ lastOp.cost > 0)

\* C15: set_state returns Unchanged when the new value is the current one;
\* under legacy metering Added if the current value is 0, Deleted if the new one
\* is 0, else Modified; under net metering with original = current Added if the
\* original is 0, Deleted if the new value is 0, else Modified, and
\* ModifiedAgain when original and current differ; except for Unchanged,
\* get_state returns the new value afterwards.
C15_StorageStatus ==
    Wrote =>
        /\ lastOp.status = Classified(rev, lastOp.original, lastOp.current, lastOp.value)
        /\ lastOp.status # StorageUnchanged =>
               GetState(txn, lastOp.addr, lastOp.key) = lastOp.value

\* under net metering a slot written before was written again
C15_Witness ==
    /\ Wrote
    /\ NetMetering(rev)
    /\ lastOp.original # lastOp.current
    /\ lastOp.status = StorageModifiedAgain
    /\ GetState(txn, lastOp.addr, lastOp.key) = lastOp.value

\* the frame wrote a non-zero value and then 0, one SSTORE after the other in
\* one transaction, to a slot whose committed and current value was 0
WroteThenCleared ==
    /\ lastOp.op = "SSTORE" /\ lastOp.cost > 0
    /\ lastOp.prev.op = "SSTORE" /\ lastOp.prev.cost > 0
    /\ lastOp.prev.addr = lastOp.addr /\ lastOp.prev.key = lastOp.key
    /\ lastOp.prev.original = 0 /\ lastOp.prev.current = 0
    /\ lastOp.prev.value # 0
    /\ lastOp.value = 0

\* what the last operation added to the refund counter
Refunded == GetRefund(txn) - GetRefund(lastOp.before)

\* C16 as stated: of a write of 1 and then of 0 to a slot whose committed value
\* is 0, in one transaction, the first is Added and costs 20000, the second is
\* Deleted and adds 15000 to the refund counter.
C16_AsStated ==
    WroteThenCleared =>
        /\ lastOp.prev.status = StorageAdded /\ lastOp.prev.cost = 20000
        /\ lastOp.status = StorageDeleted /\ Refunded = 15000

\* C16: of a write of 1 and then of 0 to a slot whose committed value is 0, in
\* one transaction, the first is Added and costs 20000; the second is, under
\* legacy metering, Deleted and adds 15000 to the refund counter, and under net
\* metering ModifiedAgain and adds 19800 (Constantinople) or 19200 (from
\* Istanbul on) to the refund counter.
C16_ResetToZero ==
    WroteThenCleared =>
        /\ lastOp.prev.status = StorageAdded /\ lastOp.prev.cost = 20000
        /\ IF ~NetMetering(rev) THEN lastOp.status = StorageDeleted /\ Refunded = 15000
           ELSE /\ lastOp.status = StorageModifiedAgain
                /\ Refunded = IF isRevisionOf(rev, Istanbul) THEN 19200 ELSE 19800

\* from Istanbul on the slot was set and reset, the second write a
\* ModifiedAgain
C16_Witness ==
    /\ WroteThenCleared
    /\ rev = Istanbul
    /\ lastOp.status = StorageModifiedAgain
    /\ Refunded = 19200

\* the last write was given the value the slot held
SameValue == Wrote /\ lastOp.current = lastOp.value

\* the last two operations were writes of one value to one slot
WroteTwice ==
    /\ Wrote
    /\ lastOp.prev.op \in {"SetStorage", "SSTORE"}
    /\ lastOp.prev.op = "SSTORE" => lastOp.prev.cost > 0
    /\ lastOp.prev.addr = lastOp.addr /\ lastOp.prev.key = lastOp.key
    /\ lastOp.prev.value = lastOp.value

\* C17: a write of the value the slot holds returns Unchanged and leaves the
\* whole overlay (the slot, the refund counter, every other entry) as it was;
\* the second of two successive writes of one value to a slot is Unchanged.
C17_Idempotence ==
    /\ SameValue => lastOp.status = StorageUnchanged /\ txn = lastOp.before
    /\ WroteTwice => lastOp.status = StorageUnchanged /\ txn = lastOp.before

\* a value was written that changed the slot, and then written again
C17_Witness ==
    /\ WroteTwice
    /\ lastOp.prev.status \in {StorageAdded, StorageModified, StorageModifiedAgain, StorageDeleted}
    /\ lastOp.status = StorageUnchanged

\* what the Snapshot backend holds at a slot
BackendValue(a, k) == SnapshotGetStorage(a, SnapshotGetAccount(a).root, k)

\* C18 as stated: get_committed_state returns what the backend holds at the
\* slot, whatever was done on the overlay.
C18_AsStated ==
    \A a \in OverlayAddrs, k \in Keys : GetCommittedState(txn, a, k) = BackendValue(a, k)

\* the overlay holds the account as deleted
MarkedDeleted(a) == txn.objs[a].present /\ txn.objs[a].deleted

\* C18: get_committed_state returns what the backend holds at the slot before
\* any operation on the overlay; set_state and suicide leave what it returns
\* for every slot as it was; after create_account it returns 0 for the slots of
\* the account created; after clean_delete_objects it returns 0 for the slots
\* of the accounts the overlay holds as deleted; what it returns for the other
\* accounts is as it was.
C18_CommittedState ==
    \A a \in OverlayAddrs, k \in Keys :
        /\ lastOp.op = "none" => GetCommittedState(txn, a, k) = BackendValue(a, k)
        /\ lastOp.op \in {"SetStorage", "SSTORE", "Suicide"} =>
               GetCommittedState(txn, a, k) = GetCommittedState(lastOp.before, a, k)
        /\ lastOp.op = "CreateAccount" =>
               GetCommittedState(txn, a, k) =
                   IF a = lastOp.addr THEN 0 ELSE GetCommittedState(lastOp.before, a, k)
        /\ lastOp.op = "CleanDeleteObjects" =>
               GetCommittedState(txn, a, k) =
                   IF MarkedDeleted(a) THEN 0 ELSE GetCommittedState(lastOp.before, a, k)
        /\ GetCommittedState(txn, a, k) \in {0, BackendValue(a, k)}

\* an account with a slot in the backend was destroyed and then deleted at the
\* end of the transaction: the committed value of the slot is 0
C18_Witness ==
    /\ lastOp.op = "CleanDeleteObjects"
    /\ MarkedDeleted("A")
    /\ BackendValue("A", "k1") = 1
    /\ GetCommittedState(txn, "A", "k1") = 0
    /\ GetCommittedState(lastOp.before, "A", "k1") = 1


\* ------------------------------------------------------------------------
\* Precompiled contracts: dispatch of a call by its code address
\* ------------------------------------------------------------------------

\* a dispatch that opens every registered address at every revision
isPrecompiledUngated(r, codeAddr) == codeAddr \in precompiledContracts

\* Transition.isPrecompiled
isPrecompiled(r, codeAddr) ==
    IF codeAddr \notin precompiledContracts THEN FALSE
    ELSE IF codeAddr \in {addr5, addr6, addr7, addr8} THEN isRevisionOf(r, Byzantium)
    ELSE IF codeAddr = addr9 THEN isRevisionOf(r, Istanbul)
    ELSE TRUE

\* precompiled.baseGasCalc
baseGasCalc(input, base, word) == u64(base + u64((u64(Len(input) + 31) \div 32) * word))

\* the error of a kernel that rejects its input
errKernel == "precompile input rejected"

\* The kernels of ModExp, Bn256Add, Bn256Mul, Bn256Pairing and Blake2f are
\* external: what their Gas and Run return for an input is an input of the
\* call, k = [cost, fails].
NoKernel == [cost |-> 0, fails |-> FALSE]

\* contract.Gas of the contract registered at address a
contractGas(a, input, r, k) ==
    CASE a = addr1 -> 3000
      [] a = addr2 -> baseGasCalc(input, 60, 12)
      [] a = addr3 -> baseGasCalc(input, 600, 120)
      [] a = addr4 -> baseGasCalc(input, 15, 3)
      [] OTHER -> k.cost

\* the digest of a hash kernel, left-padded to 32 bytes: a 32-byte string that
\* depends on the input
Digest(input) == [i \in 1..32 |-> (7 * Len(input) + i) % 256]

\* contract.Run of the contract registered at address a: [ret, err].
\* Ecrecover pads the input to 128 bytes and returns nil, nil unless bytes
\* 32..62 are zero and byte 63 is 27 or 28; no input of the model is that long.
contractRun(a, input, k) ==
    CASE a = addr1 -> [ret |-> NoBytes, err |-> ErrNone]
      [] a = addr2 -> [ret |-> Digest(input), err |-> ErrNone]
      [] a = addr3 -> [ret |-> Digest(input), err |-> ErrNone]
      [] a = addr4 -> [ret |-> input, err |-> ErrNone]
      [] OTHER -> IF k.fails THEN [ret |-> NoBytes, err |-> errKernel]
                  ELSE [ret |-> Digest(input), err |-> ErrNone]

\* runPrecompiled: [ret, gasLeft, err]; its out-of-gas error is a new error
\* value with the text of errOutOfGas
runPrecompiled(codeAddress, input, gas, r, k) ==
    LET gasCost == contractGas(codeAddress, input, r, k)
        out == contractRun(codeAddress, input, k)
    IN IF gas < gasCost THEN [ret |-> NoBytes, gasLeft |-> 0, err |-> errOutOfGas]
       ELSE IF out.err # ErrNone THEN [ret |-> NoBytes, gasLeft |-> 0, err |-> out.err]
       ELSE [ret |-> out.ret, gasLeft |-> u64(gas - gasCost), err |-> ErrNone]

\* inputs of the calls: empty, the four bytes de ad be ef, 33 zero bytes
DeadBeef == <<222, 173, 190, 239>>
PrecompileInputs == {NoBytes, DeadBeef, [i \in 1..33 |-> 0]}

\* gas budgets of the calls
PrecompileBudgets == {0, 17, 18, 21, 149, 150, 3000, 100000}

\* what an external kernel may answer
Kernels == [cost : {0, 150, 40000}, fails : BOOLEAN]

\* code addresses of the calls: every registered address and the contract A
PrecompileTargets == precompiledContracts \cup {"A"}

\* the call: its arguments, the answers of the external kernel, and whether
\* the dispatch took the address for a precompiled contract
NoCallOp == [op |-> "none", type |-> KindCall, address |-> "A", codeAddress |-> "A", input |-> NoBytes,
             gas |-> 0, value |-> 0, kernel |-> NoKernel]

InitPrecompile ==
    /\ rev \in {Frontier, SpuriousDragon, Byzantium, Petersburg, Istanbul}
    /\ txn = EmptyTxn
    /\ snapshots = <<>>
    /\ msg = NoMsg
    /\ frames = <<>>
    /\ result = NoResult
    /\ nsteps = 0
    /\ lastOp = NoCallOp
    /\ lastRet = NoRet
    /\ interp = NoInterp

\* Transition.Call / Callx / applyCall / run of a Transition with the default
\* configuration (no cheatcodes) for a call kind: a precompiled contract runs
\* to its end inside the call, any other code address starts a frame
CallPrecompiled ==
    /\ frames = <<>>
    /\ result.kind = "none"
    /\ \E kind \in {KindCall, KindDelegateCall}, codeAddress \in PrecompileTargets,
          input \in PrecompileInputs, gas \in PrecompileBudgets, value \in {0, 1}, k \in Kernels :
          LET c == [type |-> kind, address |-> IF kind = KindCall THEN codeAddress ELSE "A",
                    caller |-> "S", codeAddress |-> codeAddress, depth |-> 0, value |-> value,
                    input |-> input, gas |-> gas, static |-> FALSE, salt |-> 0]
              Ended(begin, end) ==
                  /\ txn' = end.txn
                  /\ result' = [NoResult EXCEPT !.kind = "returned", !.pre = txn]
                  /\ lastRet' = [RetNotRun(begin, c, txn) EXCEPT !.ran = TRUE, !.err = end.err,
                                     !.ret = end.ret, !.gasLeft = end.gasLeft, !.atReturn = end.txn]
                  /\ UNCHANGED frames
              Begun(begin) ==
                  /\ snapshots' = begin.snapshots
                  /\ IF begin.done
                     THEN /\ txn' = begin.txn
                          /\ result' = [NoResult EXCEPT !.kind = "returned", !.pre = txn]
                          /\ lastRet' = RetNotRun(begin, c, txn)
                          /\ UNCHANGED frames
                     ELSE IF isPrecompiled(rev, c.codeAddress)
                     THEN Ended(begin, applyCallEnd(begin.txn, begin.snapshots, begin,
                                    runPrecompiled(c.codeAddress, c.input, c.gas, rev, k)))
                     ELSE /\ txn' = begin.txn
                          /\ frames' = <<EVMRunStart(begin.txn, c, begin.snapshot)>>
                          /\ result' = [NoResult EXCEPT !.kind = "calling", !.pre = txn]
                          /\ UNCHANGED lastRet
          IN /\ (codeAddress \in {addr5, addr6, addr7, addr8, addr9} \/ k = NoKernel)
             /\ Begun(applyCallBegin(txn, snapshots, c, c.type))
             /\ lastOp' = [op |-> "call", type |-> kind, address |-> c.address, codeAddress |-> codeAddress,
                           input |-> input, gas |-> gas, value |-> value, kernel |-> k]
    /\ UNCHANGED <<interp, rev, msg, nsteps>>

NextPrecompile == CallPrecompiled

SpecPrecompile == InitPrecompile /\ [][NextPrecompile]_vars

\* the gating of the dispatch table: 0x01..0x04 always, 0x05..0x08 from
\* Byzantium, 0x09 from Istanbul
Active(a, r) ==
    \/ a \in {addr1, addr2, addr3, addr4}
    \/ a \in {addr5, addr6, addr7, addr8} /\ RevOrd(r) >= RevOrd(Byzantium)
    \/ a = addr9 /\ RevOrd(r) >= RevOrd(Istanbul)

\* the gas function of the dispatch table for the contracts whose schedule
\* is a formula of the input length
TableGas(a, n) ==
    CASE a = addr1 -> 3000
      [] a = addr2 -> 60 + 12 * ((n + 31) \div 32)
      [] a = addr3 -> 600 + 120 * ((n + 31) \div 32)
      [] a = addr4 -> 15 + 3 * ((n + 31) \div 32)

GasFn(op) ==
    IF op.codeAddress \in {addr1, addr2, addr3, addr4} THEN TableGas(op.codeAddress, Len(op.input))
    ELSE op.kernel.cost

Called == lastOp.op = "call"

\* C19: a call whose code address is an active precompile (0x01..0x04 always,
\* 0x05..0x08 from Byzantium, 0x09 from Istanbul) fails with out of gas and
\* gas_left 0 when its budget is below gas_fn(input, rev); otherwise it returns
\* budget - gas_fn on success and gas_left 0 with the kernel's error when the
\* run function errors. IDENTITY with a 4-byte input succeeds at budget 18
\* with gas_left 0 and the input as output and fails at budget 17. At a
\* revision before its gate the address is run as an ordinary account: a
\* frame starts with the code of the account at that address.
C19_PrecompileDispatch ==
    Called =>
        /\ Active(lastOp.codeAddress, rev) =>
              /\ frames = <<>>
              /\ lastRet.valid
              /\ IF lastOp.gas < GasFn(lastOp)
                 THEN lastRet.err = errOutOfGas /\ lastRet.gasLeft = 0 /\ lastRet.ret = NoBytes
                 ELSE IF lastOp.codeAddress \notin {addr1, addr2, addr3, addr4} /\ lastOp.kernel.fails
                 THEN lastRet.err = errKernel /\ lastRet.gasLeft = 0 /\ lastRet.ret = NoBytes
                 ELSE lastRet.err = ErrNone /\ lastRet.gasLeft = lastOp.gas - GasFn(lastOp)
              /\ (lastRet.err # ErrNone => txn = EmptyTxn)
              /\ (lastOp.codeAddress = addr4 /\ Len(lastOp.input) = 4 =>
                    /\ lastOp.gas = 18 => lastRet.err = ErrNone /\ lastRet.gasLeft = 0
                                          /\ lastRet.ret = lastOp.input
                    /\ lastOp.gas = 17 => lastRet.err = errOutOfGas)
              /\ (lastOp.codeAddress = addr4 /\ lastRet.err = ErrNone => lastRet.ret = lastOp.input)
        /\ ~Active(lastOp.codeAddress, rev) =>
              /\ Len(frames) = 1
              /\ ~lastRet.valid
              /\ frames[1].codeAddress = lastOp.codeAddress
              /\ frames[1].code = GetCode(txn, lastOp.codeAddress)
              /\ frames[1].gas = lastOp.gas

\* IDENTITY at Istanbul with the input de ad be ef and budget 18: paid exactly
C19_Witness ==
    /\ Called /\ rev = Istanbul
    /\ lastOp.codeAddress = addr4 /\ lastOp.input = DeadBeef /\ lastOp.gas = 18
    /\ lastRet.valid /\ lastRet.err = ErrNone /\ lastRet.ret = DeadBeef /\ lastRet.gasLeft = 0

\* a Byzantium contract called before its gate starts a frame
C19_Gated == Called /\ lastOp.codeAddress = addr6 /\ rev = SpuriousDragon /\ Len(frames) = 1

\* a kernel that rejects its input takes the whole budget
C19_KernelError ==
    /\ Called /\ lastOp.codeAddress = addr9 /\ rev = Istanbul /\ lastOp.kernel.fails
    /\ lastOp.gas > lastOp.kernel.cost /\ lastRet.err = errKernel /\ lastRet.gasLeft = 0


\* ------------------------------------------------------------------------
\* Write after Write: the nonce of the sender
\* ------------------------------------------------------------------------

\* number of messages one Transition accepts
MaxWrites == 2

\* messages of the sender S: calls of A and of the address N, which holds no
\* account, and creations, with the nonces 0, 1, 2
NonceMsgs ==
    { [NoMsg EXCEPT !.gasPrice = 1, !.gas = 121000, !.to = a, !.nonce = n, !.value = v] :
          a \in {"A", "N"}, n \in 0..MaxWrites, v \in {0, 1} }
    \cup { [NoMsg EXCEPT !.gasPrice = 1, !.gas = g, !.nonce = n, !.input = InitCode] :
          n \in 0..MaxWrites, g \in {53150, 153000} }

\* a Write of the Transition whose previous Write has returned
WriteNext(m) ==
    /\ result.kind \in {"output", "error"}
    /\ Len(result.accepted) < MaxWrites
    /\ WriteBody(m, result.accepted)
    /\ nsteps' = 0
    /\ lastOp' = NoOp

FirstWrite == \E m \in NonceMsgs : Write(m)

LaterWrite == \E m \in NonceMsgs : WriteNext(m)

NextNonce ==
    \/ FirstWrite
    \/ LaterWrite
    \/ RunOffEnd
    \/ \E err \in Faults : OpFault(err)
    \/ OpStop
    \/ \E a \in HaltArgs : OpHalt(a[1], a[2])
    \/ \E key \in Keys, val \in StoreVals : OpSStore(key, val)
    \/ \E b \in Beneficiaries : OpSelfDestruct(b)
    \/ \E a \in CreateArgs : OpCreate(a[1], a[2], a[3])
    \/ FrameReturn

\* the revisions on both sides of the gates of the sweep
NonceRevs == {Frontier, TangerineWhistle, SpuriousDragon, Byzantium}

InitNonce ==
    /\ rev \in NonceRevs
    /\ txn = EmptyTxn
    /\ snapshots = <<>>
    /\ msg = NoMsg
    /\ frames = <<>>
    /\ result = NoResult
    /\ nsteps = 0
    /\ lastOp = NoOp
    /\ lastRet = NoRet
    /\ interp = NoInterp

SpecNonce == InitNonce /\ [][NextNonce]_vars


\* a Write has been made and has not left the root frame running
Written == result.kind \in {"running", "output", "error"}

\* the nonce the sender had when the last Write began
NonceBefore == GetNonce(result.pre, result.msg0.from)

\* each message appears once among the accepted ones
AcceptedOnce ==
    \A i, j \in DOMAIN result.accepted : result.accepted[i] = result.accepted[j] => i = j

\* C20: Write(msg) is rejected with the incorrect-nonce error, leaving the
\* overlay as it was, whenever msg.nonce differs from the nonce of the sender;
\* after a Write that returned an Output, whether the execution succeeded or
\* failed and whether msg is a call or a creation, the nonce of the sender is
\* msg.nonce + 1; and no message is accepted twice by one Transition.
C20_NonceOnce ==
    /\ Written /\ result.msg0.nonce # NonceBefore =>
          /\ result.kind = "error"
          /\ result.err = ErrIncorrectNonce
          /\ txn = result.pre
    /\ Written /\ result.kind # "error" => result.msg0.nonce = NonceBefore
    /\ result.kind = "output" => GetNonce(txn, result.msg0.from) = result.msg0.nonce + 1
    /\ AcceptedOnce
    /\ \A i \in DOMAIN result.accepted : result.accepted[i].nonce = i - 1

\* a creation was accepted and returned its Output; the same message, written
\* again, is rejected for its nonce
C20_Witness ==
    /\ result.accepted # <<>>
    /\ result.kind = "error"
    /\ result.err = ErrIncorrectNonce
    /\ result.msg0 = result.accepted[Len(result.accepted)]
    /\ result.msg0.to = NoTo
    /\ GetNonce(txn, "S") = result.msg0.nonce + 1

\* two messages were accepted, the second one a call after a creation
C20_Second ==
    /\ Len(result.accepted) = 2
    /\ result.kind = "output"
    /\ result.accepted[1].to = NoTo
    /\ result.msg0.to = "A"
    /\ GetNonce(txn, "S") = 2


\* ------------------------------------------------------------------------
\* The sweep at the end of Write
\* ------------------------------------------------------------------------

\* the revision makes Write sweep the empty objects
SweepsEmpty == RevOrd(rev) >= RevOrd(SpuriousDragon)

\* C21: after every Write that returned an Output each object of the overlay
\* that self-destructed is marked deleted, each empty object (nonce 0,
\* balance 0, no code) is marked deleted from Spurious Dragon on and kept
\* before it, no other object is marked deleted, the refund counter is
\* cleared, and a read through the overlay takes a deleted object for an
\* account that does not exist, whatever the backend holds for its address.
C21_Sweep ==
    result.kind = "output" =>
        /\ txn.refund = 0
        /\ \A a \in Addrs :
              LET o == txn.objs[a]
              IN o.present =>
                    /\ o.suicide => o.deleted
                    /\ Empty(o) /\ SweepsEmpty => o.deleted
                    /\ ~o.suicide /\ ~(Empty(o) /\ SweepsEmpty) => ~o.deleted
                    /\ o.deleted =>
                          /\ getStateObject(txn, a) = NoObj
                          /\ GetNonce(txn, a) = 0
                          /\ GetBalance(txn, a) = 0
                          /\ GetCode(txn, a) = NoBytes
                          /\ \A k \in Keys : GetState(txn, a, k) = 0
                          /\ ~HasSuicided(txn, a)
                          /\ empty(txn, a)

\* the contract A, which the backend holds, self-destructed and is gone
C21_Witness ==
    /\ result.kind = "output"
    /\ txn.objs["A"].suicide
    /\ txn.objs["A"].deleted
    /\ SnapshotGetAccount("A").present
    /\ getStateObject(txn, "A") = NoObj

\* an empty object was swept
C21_EmptySwept ==
    /\ result.kind = "output"
    /\ \E a \in Addrs : txn.objs[a].present /\ Empty(txn.objs[a]) /\ ~txn.objs[a].suicide /\ txn.objs[a].deleted

\* an empty object was kept
C21_EmptyKept ==
    /\ result.kind = "output"
    /\ \E a \in Addrs : txn.objs[a].present /\ Empty(txn.objs[a]) /\ ~txn.objs[a].deleted


\* ------------------------------------------------------------------------
\* Interpreter: a bytecode that calls in a loop
\* ------------------------------------------------------------------------

\* the big-endian bytes of x in n bytes
RECURSIVE BytesOf(_, _)
BytesOf(x, n) == IF n = 0 THEN <<>> ELSE Append(BytesOf(x \div 256, n - 1), x % 256)

\* bytes of an immediate that holds any gas amount
GasBytes == (WordBits + 7) \div 8

\* what one turn of the loop below is charged outside the call: JUMPDEST,
\* seven PUSH, CALL, PUSH, JUMPI
LoopOverhead ==
    jumpGas(JUMPDEST) + 7 * jumpGas(PUSH) + jumpGas(CALL) + jumpGas(PUSH) + jumpGas(JUMPI)

\* 0: JUMPDEST; PUSH1 0 six times (retSize, retOffset, inSize, inOffset,
\* value, address); PUSHn gas; CALL; PUSH1 0; JUMPI: the call is repeated as
\* long as it succeeds
LoopCode(gas) ==
    <<ByteJumpDest>>
    \o <<BytePush1, 0, BytePush1, 0, BytePush1, 0, BytePush1, 0, BytePush1, 0, BytePush1, 0>>
    \o <<BytePush1 + GasBytes - 1>> \o BytesOf(gas, GasBytes)
    \o <<OpByte.CALL, BytePush1, 0, ByteJumpi>>

\* gas of the frame of the loop
LoopGases == {100, 3000}

\* what makes a turn of the loop cost a sixteenth of the machine words
CalleeBurn == Pow2(WordBits - 4) - LoopOverhead - 40

\* the runs: the gas the loop asks for, the gas its callee uses before it
\* returns (nothing: an account without code), the gas of the frame
LoopRuns ==
    ({1000} \X {0, 600} \X LoopGases) \cup ({U64 - 40} \X {CalleeBurn} \X LoopGases)

\* the account a word on the stack names
popAddr(w) == IF w = 1 THEN "A" ELSE "X"

\* the frame of the contract A at depth 0, called by S with no value
LoopRunStart(code, gas) ==
    JumpRunStart(code, <<>>, gas)
    @@ [caller |-> "S", value |-> 0, depth |-> 0, returnData |-> NoBytes, returned |-> 0, pending |-> NoOp]


InitLoop ==
    /\ rev \in {Frontier, Homestead, TangerineWhistle, Istanbul}
    /\ txn = EmptyTxn
    /\ snapshots = <<>>
    /\ msg = NoMsg
    /\ frames = <<>>
    /\ result = NoResult
    /\ nsteps = 0
    /\ lastOp = NoOp
    /\ lastRet = NoRet
    /\ interp \in { LoopRunStart(LoopCode(r[1]), r[3]) @@ [calleeUse |-> r[2]] : r \in LoopRuns }

\* the state of the run without the counters kept for the gas accounts
Plain(s) == [s EXCEPT !.consumed = 0, !.returned = 0, !.last = NoInstr]

\* one iteration of the loop of state.Run for an instruction with handler H
Iterated(op, H(_)) ==
    LET s0 == loopEnter(interp, op)
    IN interp' = Plain(IF s0.stop THEN s0 ELSE loopLeave(H(s0)))

LoopJumpDest ==
    /\ CanStep
    /\ CurOp = JUMPDEST
    /\ LET H(s) == s IN Iterated(JUMPDEST, H)
    /\ UNCHANGED NotJumping

LoopPush ==
    /\ CanStep
    /\ CurOp = PUSH
    /\ LET H(s) == opPush(s, PushLen(interp.code[interp.ip + 1])) IN Iterated(PUSH, H)
    /\ UNCHANGED NotJumping

LoopJumpi ==
    /\ CanStep
    /\ CurOp = JUMPI
    /\ LET H(s) == opJumpi(s) IN Iterated(JUMPI, H)
    /\ UNCHANGED NotJumping

\* the stack without its n top items
dropped(s, n) == [s EXCEPT !.stack = SubSeq(s.stack, 1, Len(s.stack) - n)]

\* opCall(CALL) with a Host whose Call makes no change to the accounts: the
\* callee uses the gas its code needs and returns, or runs out of gas and
\* returns none
LoopCall ==
    /\ CanStep
    /\ CurOp = CALL
    /\ LET Answer(gas) ==
               IF gas < interp.calleeUse THEN [ret |-> NoBytes, gasLeft |-> 0, err |-> errOutOfGas]
               ELSE [ret |-> NoBytes, gasLeft |-> gas - interp.calleeUse, err |-> ErrNone]
           \* h: what the handler did up to host.Call; res: what host.Call returned
           Resumed(h, res) ==
               interp' =
                  Plain(IF h.frame.stop THEN h.frame
                        ELSE IF ~h.descend
                        THEN loopLeave([h.frame EXCEPT !.stack = Append(h.frame.stack, 0)])
                        ELSE loopLeave([opCallEnd(h.frame, res) EXCEPT
                                            !.stack = Append(h.frame.stack,
                                                             IF res.err # ErrNone THEN 0 ELSE 1)]))
           Dispatch(h) == Resumed(h, Answer(h.contract.gas))
           H(s) == opCall(dropped(s, 7), txn, rev, CALL, peekAt(s, 1), popAddr(peekAt(s, 2)),
                          peekAt(s, 3), peekAt(s, 4), peekAt(s, 5), peekAt(s, 6), peekAt(s, 7))
           Checked1(s0) == IF s0.stop THEN interp' = Plain(s0) ELSE Dispatch(H(s0))
       IN Checked1(loopEnter(interp, CALL))
    /\ UNCHANGED NotJumping

NextLoop ==
    \/ StepEnd
    \/ LoopJumpDest
    \/ LoopPush
    \/ LoopJumpi
    \/ LoopCall

\* the loop of state.Run is a sequential program: it takes its next step as
\* long as it has one
SpecLoop == InitLoop /\ [][NextLoop]_vars /\ WF_vars(NextLoop)

\* C22 as stated: every execution terminates; for any bytecode, any finite
\* gas budget and any world state the dispatch loop of a frame eventually
\* stops, and no bytecode loop runs forever.
C22_AsStated == <>interp.stop

\* C22 from Tangerine Whistle on: the dispatch loop of the frame eventually
\* stops
C22_FromTangerine == isRevisionOf(rev, TangerineWhistle) => <>interp.stop

\* C22 with a callee gas the caller holds: the loop eventually stops at every
\* revision
HonestRequest == interp.code = LoopCode(1000)

C22_HonestRequest == HonestRequest => <>interp.stop

\* before Tangerine Whistle the frame is at the head of its loop with more
\* gas than it was started with
C22_GasGrew ==
    /\ ~isRevisionOf(rev, TangerineWhistle)
    /\ ~interp.stop
    /\ interp.ip = 0
    /\ interp.gas > 3000

\* ---------------------------------------------------------------------------
\* The pool of evm.state structs: what a released struct keeps, and what a
\* frame run on it can see of it
\* ---------------------------------------------------------------------------

\* new(state), what the pool makes when it has no struct to hand out. slots
\* are the big.Int of c.stack (the ones above sp included), mem is the backing
\* array of c.memory up to its capacity and memory its length
newState ==
    [code |-> NoBytes, bitmap |-> {}, ip |-> 0, slots |-> <<>>, sp |-> 0, gas |-> 0, consumed |-> 0,
     memory |-> 0, mem |-> <<>>, lastGasCost |-> 0, stop |-> FALSE, err |-> ErrNone,
     tmp |-> NoBytes, ret |-> NoBytes, returnData |-> NoBytes]

\* a reset that truncates the memory without clearing it
resetKeepsMemory(c) ==
    [c EXCEPT !.sp = 0, !.ip = 0, !.gas = 0, !.consumed = 0, !.lastGasCost = 0, !.stop = FALSE,
              !.err = ErrNone, !.bitmap = {}, !.tmp = NoBytes, !.ret = NoBytes, !.code = NoBytes,
              !.memory = 0]

\* state.reset: the big.Int of the stack and returnData stay as they are, the
\* bytes of the memory are cleared up to its length before it is truncated
reset(c) ==
    [c EXCEPT !.sp = 0, !.ip = 0, !.gas = 0, !.consumed = 0, !.lastGasCost = 0, !.stop = FALSE,
              !.err = ErrNone, !.bitmap = {},
              !.mem = [i \in 1..Len(c.mem) |-> IF i <= c.memory THEN 0 ELSE c.mem[i]],
              !.tmp = NoBytes, !.ret = NoBytes, !.code = NoBytes, !.memory = 0]

\* state.push1: the slot above sp is reused with the number it holds, a new
\* one is appended when there is none
push1(c) ==
    IF Len(c.slots) > c.sp THEN [c EXCEPT !.sp = c.sp + 1]
    ELSE [c EXCEPT !.slots = Append(c.slots, 0), !.sp = c.sp + 1]

\* c.push1().Set(v)
pushSet(c, v) == LET c1 == push1(c) IN [c1 EXCEPT !.slots[c1.sp] = v]

\* state.pop: the slot stays in c.stack
pop(c) == [c EXCEPT !.sp = c.sp - 1]

\* extendByteSlice on the backing array b
extendByteSlice(b, needLen) ==
    IF needLen > Len(b) THEN b \o [i \in 1..(needLen - Len(b)) |-> 0] ELSE b

\* state.checkMemory with the bytes of the memory
checkMemoryBytes(c, offset, size) ==
    LET c1 == checkMemory(c, offset, size)
    IN IF c1.stop THEN c1 ELSE [c1 EXCEPT !.mem = extendByteSlice(c.mem, c1.memory)]

\* the row of the dispatch table for an opcode byte of the pooled runs
poolTable(b) ==
    CASE b = ByteStop -> [op |-> STOP, gas |-> 0, stack |-> 0]
      [] b = OpByte.ADD -> [op |-> ADD, gas |-> 3, stack |-> 2]
      [] b = OpByte.POP -> [op |-> "POP", gas |-> 2, stack |-> 1]
      [] b = OpByte.MSTORE8 -> [op |-> "MSTORE8", gas |-> 3, stack |-> 2]
      [] b = OpByte.MSIZE -> [op |-> "MSIZE", gas |-> 2, stack |-> 0]
      [] b = OpByte.RETURNDATASIZE -> [op |-> "RETURNDATASIZE", gas |-> 2, stack |-> 0]
      [] b = OpByte.RETURN -> [op |-> RETURN, gas |-> 0, stack |-> 2]
      [] b = BytePush1 -> [op |-> PUSH, gas |-> 3, stack |-> 0]
      [] b = ByteDup1 -> [op |-> DUP, gas |-> 3, stack |-> 0]
      [] b = ByteSwap1 -> [op |-> SWAP, gas |-> 3, stack |-> 0]
      [] OTHER -> [op |-> "none", gas |-> 0, stack |-> 0]

\* the handlers: opStop, opAdd, opPop, opMStore8, opMSize, opReturnDataSize,
\* opHalt(RETURN), opPush(1), opDup(1), opSwap(1)
poolInst(c, op, r) ==
    LET x == c.slots[c.sp]
        y == c.slots[c.sp - 1]
        c2 == pop(pop(c))
        Stored(c3) == IF c3.stop THEN c3 ELSE [c3 EXCEPT !.mem[x + 1] = y % 256]
        Returned(c3) ==
            IF c3.stop THEN [c3 EXCEPT !.ret = NoBytes]
            ELSE halt([c3 EXCEPT !.ret = SubSeq(c3.mem, x + 1, x + y)])
    IN CASE op = STOP -> halt(c)
         [] op = ADD -> [pop(c) EXCEPT !.slots[c.sp - 1] = toU256(x + y)]
         [] op = "POP" -> pop(c)
         [] op = "MSTORE8" -> Stored(checkMemoryBytes(c2, x, 1))
         [] op = "MSIZE" -> pushSet(c, c.memory)
         [] op = "RETURNDATASIZE" ->
                IF ~isRevisionOf(r, Byzantium) THEN exit(c, errOpCodeNotFound)
                ELSE pushSet(c, Len(c.returnData))
         [] op = RETURN ->
                IF y = 0 THEN halt([c2 EXCEPT !.ret = NoBytes])
                ELSE Returned(checkMemoryBytes(c2, x, y))
         [] op = PUSH ->
                [pushSet(c, IF c.ip + 2 > Len(c.code) THEN 0 ELSE c.code[c.ip + 2])
                    EXCEPT !.ip = c.ip + 1]
         [] op = DUP -> IF c.sp < 1 THEN exit(c, errStackUnderflow) ELSE pushSet(c, x)
         [] op = SWAP ->
                IF c.sp < 2 THEN exit(c, errStackUnderflow)
                ELSE [c EXCEPT !.slots[c.sp] = y, !.slots[c.sp - 1] = x]

\* state.Run on the struct
RECURSIVE poolRun(_, _)
poolRun(c, r) ==
    IF c.stop THEN c
    ELSE IF c.ip >= Len(c.code) THEN halt(c)
    ELSE LET inst == poolTable(c.code[c.ip + 1])
             Checked(c1) ==
                 IF c1.stop THEN c1
                 ELSE LET c2 == poolInst(c1, inst.op, r)
                      IN IF c2.stop THEN c2
                         ELSE IF c2.sp > stackSize THEN exit(c2, errStackOverflow)
                         ELSE poolRun([c2 EXCEPT !.ip = c2.ip + 1], r)
         IN IF inst.op = "none" THEN exit(c, errOpCodeNotFound)
            ELSE IF c.sp < inst.stack THEN exit(c, errStackUnderflow)
            ELSE Checked(consumeGas(c, inst.gas))

\* EVM.Run on the struct s that acquireState handed out: the struct as
\* s.Run left it and what EVM.Run returns
EVMRunOn(s, code, gas, r) ==
    LET Ended(c) == [struct |-> c, out |-> EVMRunEnd(c)]
    IN Ended(poolRun([s EXCEPT !.returnData = NoBytes, !.code = code, !.gas = gas,
                               !.bitmap = setCode(code)], r))

\* bytecodes of the pooled runs: a sum stored and returned; 41 bytes of
\* untouched memory returned; a byte stored at offset 40 and numbers left on
\* the stack; the length of the return data returned; stack shuffling; an ADD
\* on an empty stack; the memory size returned after a store
PoolCodes ==
    { <<BytePush1, 5, BytePush1, 7, OpByte.ADD, BytePush1, 0, OpByte.MSTORE8,
        BytePush1, 1, BytePush1, 0, OpByte.RETURN>>,
      <<BytePush1, 41, BytePush1, 0, OpByte.RETURN>>,
      <<BytePush1, 9, BytePush1, 40, OpByte.MSTORE8, BytePush1, 3, BytePush1, 4>>,
      <<OpByte.RETURNDATASIZE, BytePush1, 0, OpByte.MSTORE8, BytePush1, 1, BytePush1, 0,
        OpByte.RETURN>>,
      <<BytePush1, 1, BytePush1, 2, ByteDup1, ByteSwap1, OpByte.POP, OpByte.ADD, ByteStop>>,
      <<OpByte.ADD>>,
      <<BytePush1, 6, BytePush1, 2, OpByte.MSTORE8, OpByte.MSIZE, BytePush1, 1, OpByte.MSTORE8,
        BytePush1, 2, BytePush1, 0, OpByte.RETURN>> }

PoolGases == {14, 1000}

PoolInputs == PoolCodes \X PoolGases

NoPoolRun == [ran |-> FALSE, code |-> NoBytes, gas |-> 0, dirty |-> newState, out |-> EVMRunEnd(newState)]

\* the struct left by a frame that ended after a CALL which returned three
\* bytes: opCall copied them into the memory at retOffset 61 and into
\* c.returnData, where reset leaves them; the seven operands of the CALL and
\* the flag it pushed are still in the big.Int of the stack
CallerLeft ==
    reset([newState EXCEPT !.returnData = <<1, 2, 3>>, !.slots = <<1, 61, 0, 0, 0, 4, 100>>,
                           !.mem = [i \in 1..64 |-> IF i > 61 THEN i - 61 ELSE 0],
                           !.memory = 64])

InitPool ==
    /\ rev \in {Homestead, Byzantium}
    /\ txn = EmptyTxn
    /\ snapshots = <<>>
    /\ msg = NoMsg
    /\ frames = <<>>
    /\ result = NoResult
    /\ nsteps = 0
    /\ lastOp = NoOp
    /\ lastRet = NoRet
    /\ interp = [pool |-> {CallerLeft}, last |-> NoPoolRun]

\* EVM.Run between acquireState and releaseState, on the struct s
PoolRan(s, in, rest) ==
    LET Done(e) ==
            interp' = [pool |-> rest \cup {reset(e.struct)},
                       last |-> [ran |-> TRUE, code |-> in[1], gas |-> in[2], dirty |-> s, out |-> e.out]]
    IN Done(EVMRunOn(s, in[1], in[2], rev))

\* EVM.Run when statePool.Get hands out a struct released earlier
RunPooled ==
    /\ \E in \in PoolInputs, s \in interp.pool : PoolRan(s, in, interp.pool \ {s})
    /\ UNCHANGED NotJumping

\* EVM.Run when statePool.Get finds the pool empty and makes a new struct
RunNew ==
    /\ interp.pool = {}
    /\ \E in \in PoolInputs : PoolRan(newState, in, interp.pool)
    /\ UNCHANGED NotJumping

\* the garbage collector takes a struct out of the pool
PoolDrop ==
    /\ \E s \in interp.pool : interp' = [interp EXCEPT !.pool = interp.pool \ {s}]
    /\ UNCHANGED NotJumping

NextPool == RunPooled \/ RunNew \/ PoolDrop

SpecPool == InitPool /\ [][NextPool]_vars

\* what EVM.Run returns for the last run on a struct never used before
FreshOut == EVMRunOn(newState, interp.last.code, interp.last.gas, rev).out

C23_StaleReturnData ==
    /\ interp.last.ran
    /\ interp.last.dirty.returnData # NoBytes
    /\ interp.last.code[1] = OpByte.RETURNDATASIZE
    /\ interp.last.out.ret = <<0>>

\* ---------------------------------------------------------------------------
\* Creation on an address that is taken
\* ---------------------------------------------------------------------------

\* the account at a has a nonce other than zero or holds code
TargetTaken(t, a) == GetNonce(t, a) # 0 \/ GetCode(t, a) # NoBytes

\* nonce, balance, code and storage of the account at a are the same in the
\* overlays t and u
SameAccount(t, u, a) ==
    /\ GetNonce(t, a) = GetNonce(u, a)
    /\ GetBalance(t, a) = GetBalance(u, a)
    /\ GetCode(t, a) = GetCode(u, a)
    /\ \A k \in Keys : GetState(t, a, k) = GetState(u, a, k)

\* the step is a CREATE or CREATE2 whose handler called the Host
CreateCalled == nsteps' = nsteps + 1 /\ lastOp'.op \in {CREATE, CREATE2} /\ lastOp'.called

\* the address that handler derives for the new contract
CreateTarget ==
    IF lastOp'.op = CREATE THEN createAddress(Top.address, GetNonce(txn, Top.address))
    ELSE createAddress2(Top.address, 1, NoBytes)

\* the step is a Write of a contract creation that passed preCheck
CreationWritten ==
    /\ frames = <<>>
    /\ result'.accepted # result.accepted
    /\ IsContractCreation(result'.msg0)

WriteTarget == createAddress(result'.msg0.from, GetNonce(txn, result'.msg0.from))

\* what applyCreate reports of a collision: the error, no gas left, no
\* snapshot taken and no code run
CollisionReturned ==
    /\ lastRet'.valid
    /\ lastRet'.err = ErrCollision
    /\ lastRet'.gasLeft = 0
    /\ ~lastRet'.ran
    /\ ~lastRet'.hasSnap
    /\ lastRet'.ret = NoBytes
    /\ snapshots' = snapshots

\* C24: a creation whose target address has a nonce other than zero or holds
\* code fails with the address collision error and gas left 0, runs no init
\* code and leaves nonce, balance, code and storage of the target as they
\* were. For CREATE / CREATE2 the handler pushes 0 and gets none of the gas it
\* set aside for the creation back; for
\* a creation message Write reports a failure with GasLeft 0
C24_Collision ==
    [][ /\ (CreateCalled /\ TargetTaken(txn, CreateTarget))
           => /\ CollisionReturned
              /\ Len(frames') = Len(frames)
              /\ lastOp'.pushed = 0
              /\ frames'[Len(frames')].gas + lastOp'.cost = Top.gas
              /\ lastOp'.cost >= lastOp'.reserved
              /\ SameAccount(txn, txn', CreateTarget)
        /\ (CreationWritten /\ TargetTaken(txn, WriteTarget))
           => /\ CollisionReturned
              /\ frames' = <<>>
              /\ result'.kind = "output"
              /\ ~result'.output.Success
              /\ result'.output.GasLeft = 0
              /\ SameAccount(txn, txn', WriteTarget)
      ]_vars

\* a CREATE that met a taken address, from a caller that sent value with it
\* or not
C24_Witness ==
    /\ lastRet.valid
    /\ lastRet.err = ErrCollision
    /\ lastOp.op = CREATE
    /\ lastOp.called
    /\ frames # <<>>

\* a creation message that met a taken address
C24_TopLevel ==
    /\ lastRet.valid
    /\ lastRet.err = ErrCollision
    /\ frames = <<>>
    /\ result.kind = "output"
    /\ IsContractCreation(result.msg0)

\* a creation message that met an address that holds code under a nonce of
\* zero (a contract created before Spurious Dragon)
C24_CodeOnly ==
    /\ C24_TopLevel
    /\ GetNonce(lastRet.atReturn, "N") = 0
    /\ GetCode(lastRet.atReturn, "N") # NoBytes

\* ---------------------------------------------------------------------------
\* Creation: the code the init code returns
\* ---------------------------------------------------------------------------

\* lengths of the code returned: none, one byte, the largest length Spurious
\* Dragon accepts and one byte more
CodeSizes == {0, 1, spuriousDragonMaxCodeSize, spuriousDragonMaxCodeSize + 1}

\* gas limits of the creation messages: what is left after the intrinsic gas
\* does not pay for one byte of code, pays for a few bytes, pays for the memory
\* of the longest codes but not for their storage, pays for everything
CreateGases == {53150, 60000, 4900000, 6000000}

\* creation messages, and a call of the contract A, which creates with CREATE2
CreateMsgs ==
    { [NoMsg EXCEPT !.gas = g, !.value = v, !.input = InitCode] : g \in CreateGases, v \in {0, 1} }
    \cup { [NoMsg EXCEPT !.gas = g, !.to = "A"] : g \in {30000 + 60000, 6000000} }

CreateRevs == {Frontier, Homestead, SpuriousDragon, Istanbul}

InitCreate ==
    /\ rev \in CreateRevs
    /\ txn = EmptyTxn
    /\ snapshots = <<>>
    /\ msg = NoMsg
    /\ frames = <<>>
    /\ result = NoResult
    /\ nsteps = 0
    /\ lastOp = NoOp
    /\ lastRet = NoRet
    /\ interp = NoInterp

NextCreate ==
    \/ \E m \in CreateMsgs : Write(m)
    \/ \E size \in CodeSizes : OpHalt(RETURN, size)
    \/ \E key \in Keys : OpSStore(key, 2)
    \/ OpCreate(CREATE2, 1, 2)
    \/ RunOffEnd
    \/ FrameReturn

SpecCreate == InitCreate /\ [][NextCreate]_vars

\* the step is the return of a creation frame whose init code ended without
\* an error: applyCreate goes on after t.run
InitCodeReturned ==
    /\ frames # <<>>
    /\ Top.stop
    /\ frames' # frames
    /\ Top.type \in {KindCreate, KindCreate2}
    /\ Top.err = ErrNone

\* the charge for the code returned, and whether the gas left pays for it
CodeCharge == 200 * Len(Top.ret)

CodePaid == Top.gas >= CodeCharge

TooLong == Len(Top.ret) > spuriousDragonMaxCodeSize

\* the frame is reverted and fails with no gas left
FrameReverted ==
    /\ lastRet'.err # ErrNone
    /\ lastRet'.gasLeft = 0
    /\ lastRet'.atReturn = snapshots[Top.snapshot + 1]

\* the code is charged and stored at the new address
CodeStored ==
    /\ lastRet'.err = ErrNone
    /\ lastRet'.gasLeft = Top.gas - CodeCharge
    /\ lastRet'.atReturn = SetCode(txn, Top.address, Top.ret)
    /\ GetCode(lastRet'.atReturn, Top.address) = Top.ret

\* the creation fails, the changes of the frame stay, no code is stored and
\* the gas left is returned
ChangesKept ==
    /\ lastRet'.err = ErrCodeStoreOutOfGas
    /\ lastRet'.gasLeft = Top.gas
    /\ lastRet'.atReturn = txn
    /\ GetCode(lastRet'.atReturn, Top.address) = NoBytes

\* the outcome when the code is not too long
ChargedOrFailed ==
    IF CodePaid THEN CodeStored
    ELSE IF isRevisionOf(rev, Homestead) THEN FrameReverted /\ lastRet'.err = ErrCodeStoreOutOfGas
    ELSE ChangesKept

\* C25 as stated: after init code returned successfully, code longer than
\* 24576 bytes reverts the frame and fails it at every revision; otherwise 200
\* gas per byte is charged and the code stored, or, when the gas left is below
\* the charge, the frame is reverted with gas left 0 from Homestead on and
\* keeps its changes, stores no code and returns the gas left before Homestead
C25_AsStated ==
    [][InitCodeReturned => IF TooLong THEN FrameReverted ELSE ChargedOrFailed]_vars

\* C25: the same with the length limit applying from Spurious Dragon on:
\* before Spurious Dragon code of any length is charged and stored like
\* shorter code
C25_CodeStorage ==
    [][InitCodeReturned =>
          IF TooLong /\ isRevisionOf(rev, SpuriousDragon)
          THEN FrameReverted /\ lastRet'.err = ErrMaxCodeSize
          ELSE ChargedOrFailed]_vars

\* the last frame was a creation whose init code returned without error
CreationReturned ==
    /\ lastRet.valid
    /\ lastRet.ran
    /\ lastRet.type \in {KindCreate, KindCreate2}
    /\ lastRet.frameErr = ErrNone

\* code of 24577 bytes stored before Spurious Dragon
C25_Witness ==
    /\ CreationReturned
    /\ ~isRevisionOf(rev, SpuriousDragon)
    /\ Len(lastRet.frameRet) > spuriousDragonMaxCodeSize
    /\ lastRet.err = ErrNone
    /\ Len(GetCode(lastRet.atReturn, "N")) > spuriousDragonMaxCodeSize

\* code of 24577 bytes refused from Spurious Dragon on
C25_TooLongRefused ==
    /\ CreationReturned
    /\ Len(lastRet.frameRet) > spuriousDragonMaxCodeSize
    /\ lastRet.err = ErrMaxCodeSize

\* the code storage not paid for before Homestead, after the init code wrote
\* to the storage: the write stays
C25_KeptBeforeHomestead ==
    /\ CreationReturned
    /\ rev = Frontier
    /\ lastRet.err = ErrCodeStoreOutOfGas
    /\ lastRet.gasLeft > 0
    /\ lastRet.atReturn # lastRet.atSnapshot

\* the code storage not paid for from Homestead on
C25_RevertedFromHomestead ==
    /\ CreationReturned
    /\ isRevisionOf(rev, Homestead)
    /\ lastRet.err = ErrCodeStoreOutOfGas
    /\ lastRet.evmGasLeft > 0
    /\ lastRet.gasLeft = 0

\* code stored by a CREATE2 of a contract
C25_Nested ==
    /\ CreationReturned
    /\ lastRet.type = KindCreate2
    /\ lastRet.err = ErrNone
    /\ lastRet.frameRet # NoBytes
    /\ lastOp.pushed = 1

\* ---------------------------------------------------------------------------
\* BYTE
\* ---------------------------------------------------------------------------

\* the index of the last byte of a word (31 for the words of 32 bytes of the
\* source)
LastByte == WordBytes - 1

\* big.Int.Int64: the low machine word of x, read as a signed number
Int64(x) == int64(Uint64(x))

\* big.Int.Rsh on a word
Rsh(y, n) == IF n >= 8 * WordBytes THEN 0 ELSE y \div Pow2(n)

\* an opByte that compares the index as a whole number
opByteWhole(s) ==
    LET x == top(s)
        y == top(popped(s))
        v == IF x > LastByte THEN 0 ELSE Rsh(y, (LastByte - x) * 8) % 256
    IN [s EXCEPT !.stack = Append(SubSeq(s.stack, 1, Len(s.stack) - 2), v)]

\* opByte: the index is read with Int64, the shift is computed in int64 and
\* converted to uint
opByte(s) ==
    LET x == top(s)
        y == top(popped(s))
        indx == Int64(x)
        sh == u64((LastByte - indx) * 8)
        v == IF indx > LastByte THEN 0 ELSE Rsh(y, sh) % 256
    IN [s EXCEPT !.stack = Append(SubSeq(s.stack, 1, Len(s.stack) - 2), v)]

\* words BYTE reads from
ByteWords == {0, 1, 255, 256, 4660, 43981, tt256m1}

\* indices: inside the word, just past it, at half a machine word and around
\* it, at a machine word and past it, and the largest values of the scaled
\* index range
ByteIndices ==
    {0, 1, 2, 3, 255, 256, U64 \div 2 - 1, U64 \div 2, U64 \div 2 + 1, U64 - U64 \div 8 + LastByte,
     U64 - 2, MaxU64, U64, U64 + 1, U64 + 2, 2 * U64 - 1}

InitByte ==
    /\ rev = Istanbul
    /\ txn = EmptyTxn
    /\ snapshots = <<>>
    /\ msg = NoMsg
    /\ frames = <<>>
    /\ result = NoResult
    /\ nsteps = 0
    /\ lastOp = NoOp
    /\ lastRet = NoRet
    /\ interp \in { JumpRunStart(<<OpByte.BYTE>>, <<y, x>>, g) :
                        y \in ByteWords, x \in ByteIndices, g \in {2, 100} }

\* one iteration of the loop of state.Run on BYTE
StepByte ==
    /\ CanStep
    /\ interp.code[interp.ip + 1] = OpByte.BYTE
    /\ LET Entered(s0) == interp' = IF s0.stop THEN s0 ELSE loopLeave(opByte(s0))
       IN Entered(loopEnter(interp, "BYTE"))
    /\ UNCHANGED NotJumping

NextByte == StepByte \/ StepEnd

SpecByte == InitByte /\ [][NextByte]_vars

\* the i-th most significant byte of the word y
ByteOf(y, i) == (y \div Pow2(8 * (LastByte - i))) % 256

\* the step executed the handler of BYTE with index i on the word y
ByteRan == CanStep /\ ~interp'.stop /\ interp'.ip = interp.ip + 1

\* C26 as stated: BYTE(i, x) leaves the i-th most significant byte of x for
\* an index inside the word and 0 for every index past the last byte, however
\* large
C26_AsStated ==
    [][ByteRan => interp'.stack = << IF top(interp) <= LastByte
                                      THEN ByteOf(top(popped(interp)), top(interp))
                                      ELSE 0 >>]_vars

\* the same for the indices below half a machine word (2 ** 63 in the source)
C26_SmallIndex ==
    [][(ByteRan /\ top(interp) < U64 \div 2)
          => interp'.stack = << IF top(interp) <= LastByte
                                 THEN ByteOf(top(popped(interp)), top(interp))
                                 ELSE 0 >>]_vars

\* BYTE has left a byte other than 0
C26_NonZero == interp.stop /\ interp.err = ErrNone /\ interp.stack # <<>> /\ interp.stack[1] # 0

\* ---------------------------------------------------------------------------
\* CREATE2 addresses: Keccak-256 on bytes
\* ---------------------------------------------------------------------------

\* a sequence with its elements computed
Forced(f) == f \o <<>>

Xor(a, b) == (a + b) % 2

\* a lane of the Keccak state: 64 bits, the least significant first
ZeroLane == Forced([z \in 1..64 |-> 0])

\* rotation of a lane towards the most significant bit
Rot(l, n) == Forced([z \in 1..64 |-> l[((z - 1 - n + 64) % 64) + 1]])

XorLane(a, b) == Forced([z \in 1..64 |-> Xor(a[z], b[z])])

\* the state is a sequence of 25 lanes: lane (x, y) is at Idx(x, y)
Idx(x, y) == (x % 5) + 5 * (y % 5) + 1

ZeroState == Forced([i \in 1..25 |-> ZeroLane])

\* the rotation offsets of the step rho
RECURSIVE RhoWalk(_, _, _, _)
RhoWalk(t, x, y, acc) ==
    IF t = 24 THEN acc
    ELSE RhoWalk(t + 1, y, (2 * x + 3 * y) % 5,
                 [acc EXCEPT ![Idx(x, y)] = (((t + 1) * (t + 2)) \div 2) % 64])

RhoOffsets == RhoWalk(0, 1, 0, Forced([i \in 1..25 |-> 0]))

\* the round constants, each as the set of its bits that are 1
rcBits ==
    << {0}, {1, 7, 15}, {1, 3, 7, 15, 63}, {15, 31, 63},
       {0, 1, 3, 7, 15}, {0, 31}, {0, 7, 15, 31, 63}, {0, 3, 15, 63},
       {1, 3, 7}, {3, 7}, {0, 3, 15, 31}, {1, 3, 31},
       {0, 1, 3, 7, 15, 31}, {0, 1, 3, 7, 63}, {0, 3, 7, 15, 63}, {0, 1, 15, 63},
       {1, 15, 63}, {7, 63}, {1, 3, 15}, {1, 3, 31, 63},
       {0, 7, 15, 31, 63}, {7, 15, 63}, {0, 31}, {3, 15, 31, 63} >>

RC(ir) == Forced([z \in 1..64 |-> IF z - 1 \in rcBits[ir + 1] THEN 1 ELSE 0])

\* one round of Keccak-f[1600]: theta, rho and pi, chi, iota
Round(A, ir) ==
    LET C == Forced([x \in 1..5 |->
                 XorLane(XorLane(XorLane(XorLane(A[x], A[x + 5]), A[x + 10]), A[x + 15]), A[x + 20])])
        D == Forced([x \in 1..5 |-> XorLane(C[((x + 3) % 5) + 1], Rot(C[(x % 5) + 1], 1))])
        T == Forced([i \in 1..25 |-> XorLane(A[i], D[((i - 1) % 5) + 1])])
        \* the lane that pi moves to position i
        Src(i) == LET X == (i - 1) % 5
                      Y == (i - 1) \div 5
                  IN Idx(CHOOSE xx \in 0..4 : (2 * xx + 3 * X) % 5 = Y, X)
        B == Forced([i \in 1..25 |-> Rot(T[Src(i)], RhoOffsets[Src(i)])])
        Chi == Forced([i \in 1..25 |->
                  LET X == (i - 1) % 5
                      Y == (i - 1) \div 5
                      b0 == B[i]
                      b1 == B[Idx(X + 1, Y)]
                      b2 == B[Idx(X + 2, Y)]
                  IN Forced([z \in 1..64 |-> Xor(b0[z], (1 - b1[z]) * b2[z])])])
    IN [Chi EXCEPT ![1] = XorLane(Chi[1], RC(ir))]

KeccakRounds == Len(rcBits)

\* the rate of Keccak-256 in bytes
KeccakRate == 1600 \div 8 - 2 * 32

\* the padding of Keccak: a byte 0x01, zero bytes, and 0x80 on the last byte
\* of the block
Pad(data) ==
    LET n == KeccakRate - (Len(data) % KeccakRate)
    IN data \o [i \in 1..n |-> (IF i = 1 THEN 1 ELSE 0) + (IF i = n THEN 128 ELSE 0)]

\* a block of the rate as lanes, bytes in little-endian order
BlockLanes(blk) ==
    Forced([i \in 1..25 |->
        IF 8 * i <= KeccakRate
        THEN Forced([z \in 1..64 |->
                 (blk[8 * (i - 1) + ((z - 1) \div 8) + 1] \div Pow2((z - 1) % 8)) % 2])
        ELSE ZeroLane])

\* the state after a block is added to it
XorIn(A, blk) == LET Added(bl) == Forced([i \in 1..25 |-> XorLane(A[i], bl[i])])
                 IN Added(BlockLanes(blk))

\* byte k of a lane
LaneByte(l, k) ==
    LET F[i \in 0..8] == IF i = 8 THEN 0 ELSE l[8 * k + i + 1] * Pow2(i) + F[i + 1]
    IN F[0]

\* the 32 bytes of the digest
Squeeze(A) == Forced([i \in 1..32 |-> LaneByte(A[((i - 1) \div 8) + 1], (i - 1) % 8)])

create2Prefix == <<255>>

\* what createAddress2 hashes when the salt comes before the address
create2InputSwapped(addr, salt, codeHash) == create2Prefix \o salt \o addr \o codeHash

\* what createAddress2 hashes: create2Prefix, addr[:], salt[:] and the hash of
\* the init code
create2Input(addr, salt, codeHash) == create2Prefix \o addr \o salt \o codeHash

\* copy(res[:], hash[12:])
LastTwenty(hash) == SubSeq(hash, 13, 32)

\* the cases of TestCreate2
Create2Cases ==
    <<[address |-> <<0, 0, 0, 0, 0, 0, 0, 0, 0, 0, 0, 0, 0, 0, 0, 0, 0, 0, 0, 0>>,
       salt |-> <<0, 0, 0, 0, 0, 0, 0, 0, 0, 0, 0, 0, 0, 0, 0, 0, 0, 0, 0, 0, 0, 0, 0, 0, 0, 0, 0,
                0, 0, 0, 0, 0>>,
       initCode |-> <<0>>,
       result |-> <<77, 26, 46, 43, 180, 248, 143, 2, 80, 242, 111, 255, 240, 152, 176, 179, 11, 38,
                  191, 56>>],
      [address |-> <<222, 173, 190, 239, 0, 0, 0, 0, 0, 0, 0, 0, 0, 0, 0, 0, 0, 0, 0, 0>>,
       salt |-> <<0, 0, 0, 0, 0, 0, 0, 0, 0, 0, 0, 0, 0, 0, 0, 0, 0, 0, 0, 0, 0, 0, 0, 0, 0, 0, 0,
                0, 0, 0, 0, 0>>,
       initCode |-> <<0>>,
       result |-> <<185, 40, 246, 155, 177, 217, 28, 214, 82, 116, 227, 199, 157, 137, 134, 54, 41,
                  132, 253, 163>>],
      [address |-> <<222, 173, 190, 239, 0, 0, 0, 0, 0, 0, 0, 0, 0, 0, 0, 0, 0, 0, 0, 0>>,
       salt |-> <<0, 0, 0, 0, 0, 0, 0, 0, 0, 0, 0, 0, 254, 237, 0, 0, 0, 0, 0, 0, 0, 0, 0, 0, 0, 0,
                0, 0, 0, 0, 0, 0>>,
       initCode |-> <<0>>,
       result |-> <<208, 65, 22, 205, 209, 123, 235, 229, 101, 235, 36, 34, 242, 73, 126, 6, 204,
                  28, 152, 51>>],
      [address |-> <<0, 0, 0, 0, 0, 0, 0, 0, 0, 0, 0, 0, 0, 0, 0, 0, 0, 0, 0, 0>>,
       salt |-> <<0, 0, 0, 0, 0, 0, 0, 0, 0, 0, 0, 0, 0, 0, 0, 0, 0, 0, 0, 0, 0, 0, 0, 0, 0, 0, 0,
                0, 0, 0, 0, 0>>,
       initCode |-> <<222, 173, 190, 239>>,
       result |-> <<112, 242, 178, 145, 74, 42, 75, 120, 63, 174, 251, 117, 244, 89, 165, 128, 97,
                  111, 203, 94>>],
      [address |-> <<0, 0, 0, 0, 0, 0, 0, 0, 0, 0, 0, 0, 0, 0, 0, 0, 222, 173, 190, 239>>,
       salt |-> <<0, 0, 0, 0, 0, 0, 0, 0, 0, 0, 0, 0, 0, 0, 0, 0, 0, 0, 0, 0, 0, 0, 0, 0, 0, 0, 0,
                0, 202, 254, 186, 190>>,
       initCode |-> <<222, 173, 190, 239>>,
       result |-> <<96, 243, 246, 64, 168, 80, 143, 198, 168, 109, 69, 223, 5, 25, 98, 102, 142, 30,
                  138, 199>>],
      [address |-> <<0, 0, 0, 0, 0, 0, 0, 0, 0, 0, 0, 0, 0, 0, 0, 0, 222, 173, 190, 239>>,
       salt |-> <<0, 0, 0, 0, 0, 0, 0, 0, 0, 0, 0, 0, 0, 0, 0, 0, 0, 0, 0, 0, 0, 0, 0, 0, 0, 0, 0,
                0, 202, 254, 186, 190>>,
       initCode |-> <<222, 173, 190, 239, 222, 173, 190, 239, 222, 173, 190, 239, 222, 173, 190,
                    239, 222, 173, 190, 239, 222, 173, 190, 239, 222, 173, 190, 239, 222, 173, 190,
                    239, 222, 173, 190, 239, 222, 173, 190, 239, 222, 173, 190, 239>>,
       result |-> <<29, 139, 253, 197, 212, 109, 196, 246, 29, 107, 97, 21, 151, 37, 54, 235, 230,
                  168, 133, 76>>],
      [address |-> <<0, 0, 0, 0, 0, 0, 0, 0, 0, 0, 0, 0, 0, 0, 0, 0, 0, 0, 0, 0>>,
       salt |-> <<0, 0, 0, 0, 0, 0, 0, 0, 0, 0, 0, 0, 0, 0, 0, 0, 0, 0, 0, 0, 0, 0, 0, 0, 0, 0, 0,
                0, 0, 0, 0, 0>>,
       initCode |-> <<>>,
       result |-> <<227, 60, 12, 127, 125, 244, 128, 144, 85, 195, 235, 166, 192, 156, 254, 75, 175,
                  27, 217, 224>>] >>

\* ethgo.Keccak256 as a machine: hashing is absorbing the padded input block
\* by block, with the rounds of the permutation after each block, and reading
\* the digest
NoSponge == [case |-> 0, phase |-> "idle", rest |-> NoBytes, A |-> ZeroState,
             round |-> KeccakRounds, address |-> NoBytes]

InitCreate2 ==
    /\ rev \in {Constantinople, Istanbul}
    /\ txn = EmptyTxn
    /\ snapshots = <<>>
    /\ msg = NoMsg
    /\ frames = <<>>
    /\ result = NoResult
    /\ nsteps = 0
    /\ lastOp = NoOp
    /\ lastRet = NoRet
    /\ interp = NoSponge

\* applyCreate for a contract of type Create2 calls createAddress2(c.Caller,
\* c.Salt, c.Input): first ethgo.Keccak256(inithash)
Create2Begin(i) ==
    /\ interp.phase = "idle"
    /\ interp' = [NoSponge EXCEPT !.case = i, !.phase = "code",
                                  !.rest = Pad(Create2Cases[i].initCode)]
    /\ UNCHANGED NotJumping

AbsorbBlock ==
    /\ interp.round = KeccakRounds
    /\ interp.rest # NoBytes
    /\ interp' = [interp EXCEPT !.A = XorIn(interp.A, SubSeq(interp.rest, 1, KeccakRate)),
                                !.rest = SubSeq(interp.rest, KeccakRate + 1, Len(interp.rest)),
                                !.round = 0]
    /\ UNCHANGED NotJumping

KeccakRound ==
    /\ interp.round < KeccakRounds
    /\ interp' = [interp EXCEPT !.A = Round(interp.A, interp.round), !.round = interp.round + 1]
    /\ UNCHANGED NotJumping

\* the hash of the init code is ready: Keccak256(create2Prefix, addr[:],
\* salt[:], <the hash>)
HashInput ==
    /\ interp.phase = "code"
    /\ interp.round = KeccakRounds
    /\ interp.rest = NoBytes
    /\ interp' = [interp EXCEPT !.phase = "address", !.A = ZeroState,
                                !.rest = Pad(create2Input(Create2Cases[interp.case].address,
                                                          Create2Cases[interp.case].salt,
                                                          Squeeze(interp.A)))]
    /\ UNCHANGED NotJumping

\* the outer hash is ready: createAddress2 returns its last 20 bytes
Create2End ==
    /\ interp.phase = "address"
    /\ interp.round = KeccakRounds
    /\ interp.rest = NoBytes
    /\ interp' = [interp EXCEPT !.phase = "done", !.address = LastTwenty(Squeeze(interp.A))]
    /\ UNCHANGED NotJumping

NextCreate2 ==
    \/ \E i \in 1..Len(Create2Cases) : Create2Begin(i)
    \/ AbsorbBlock
    \/ KeccakRound
    \/ HashInput
    \/ Create2End

SpecCreate2 == InitCreate2 /\ [][NextCreate2]_vars

\* C27: the address createAddress2 derives is the last 20 bytes of
\* keccak256(0xFF, sender, salt, keccak256(init code)): for the inputs of the
\* EIP-1014 vectors it is the address of the vector, at every revision (zero
\* sender, zero salt and init code 0x00 give
\* 0x4D1A2e2bB4F88F0250f26Ffff098B0b30B26BF38)
C27_Create2Address ==
    interp.phase = "done" =>
        /\ interp.address = Create2Cases[interp.case].result
        /\ Len(interp.address) = 20

\* the first vector has been derived
C27_Witness ==
    /\ interp.phase = "done"
    /\ interp.case = 1
    /\ interp.address = <<77, 26, 46, 43, 180, 248, 143, 2, 80, 242, 111, 255, 240, 152, 176, 179,
                          11, 38, 191, 56>>

\* ---------------------------------------------------------------------------
\* Snapshots along the call tree
\* ---------------------------------------------------------------------------

\* instructions dispatched in a transaction and frames open at once
NestSteps == 7
NestFrames == 3

NestLimits == [steps |-> NestSteps, frames |-> NestFrames]

\* a call of the contract A and creations whose gas cannot pay for the code
NestMsgs ==
    { [NoMsg EXCEPT !.gas = 300000, !.to = "A"],
      [NoMsg EXCEPT !.gas = 21150, !.value = 1, !.input = InitCode],
      [NoMsg EXCEPT !.gas = 53150, !.value = 1, !.input = InitCode] }

NestRevs == {Frontier, Byzantium}

\* the gas a frame asks for its callee
NestGases == {100000, 30000}

InitNest ==
    /\ rev \in NestRevs
    /\ txn = EmptyTxn
    /\ snapshots = <<>>
    /\ msg = NoMsg
    /\ frames = <<>>
    /\ result = NoResult
    /\ nsteps = 0
    /\ lastOp = NoOp
    /\ lastRet = NoRet
    /\ interp = NoInterp

\* SSTORE of a value that names the step: every write of a transaction leaves
\* its own mark
NestStore == \E val \in 1..NestSteps : val = nsteps + 1 /\ OpSStoreIn(NestLimits, "k1", val)

\* the root frame asks for the larger amount, the frames below for the smaller
NestCall ==
    \E g \in NestGases :
        /\ (g = 30000) = (Len(frames) > 1)
        /\ OpCallIn(NestLimits, CALL, g, "A", 0)

NextNest ==
    \/ \E m \in NestMsgs : Write(m)
    \/ NestStore
    \/ NestCall
    \/ OpFaultIn(NestLimits, errStackUnderflow)
    \/ \E op \in {RETURN, REVERT} : OpHaltIn(NestLimits, op, 1)
    \/ RunOffEnd
    \/ FrameReturn

SpecNest == InitNest /\ [][NextNest]_vars

\* a CALL opened a frame below the frame that executed it
NestedEntry == frames # <<>> /\ Len(frames') = Len(frames) + 1 /\ lastOp'.op = CALL

\* the innermost frame returns to its caller, or to Write
Returning == frames # <<>> /\ Top.stop /\ Len(frames') < Len(frames)

\* the overlay when the innermost frame began
AtEntry == snapshots[Top.snapshot + 1]

\* the frame is a creation that fails before Homestead because its gas cannot
\* pay for the code it returns
KeptCreation ==
    /\ lastRet'.type \in {KindCreate, KindCreate2}
    /\ lastRet'.err = ErrCodeStoreOutOfGas
    /\ ~isRevisionOf(rev, Homestead)

\* the snapshot of a frame opened by CALL is the overlay as the caller left it,
\* the snapshots taken so far stay as they are while frames run below them, and
\* the snapshots of the open frames are in the order of the frames
SnapshotsNest ==
    /\ NestedEntry => snapshots'[frames'[Len(frames')].snapshot + 1] = txn
    /\ frames # <<>> =>
          /\ Len(snapshots') >= Len(snapshots)
          /\ \A i \in DOMAIN snapshots : snapshots'[i] = snapshots[i]
    /\ \A i, j \in DOMAIN frames' : i < j => frames'[i].snapshot < frames'[j].snapshot

\* a frame that returns without an error hands the overlay on as it is
SuccessKeeps ==
    Returning /\ lastRet'.err = ErrNone /\ lastRet'.type \notin {KindCreate, KindCreate2}
        => lastRet'.atReturn = txn

\* C28 as stated: when a frame fails, the overlay it returns is the overlay of
\* its entry (what it and the frames below it did is undone, what its ancestors
\* did before calling it is kept), and a frame that succeeds keeps what it did
\* before and after a call that failed.
C28_AsStated ==
    [][/\ SnapshotsNest
       /\ SuccessKeeps
       /\ Returning /\ lastRet'.err # ErrNone => lastRet'.atReturn = AtEntry]_vars

\* C28: snapshots nest along the call tree: a frame opened by CALL begins with
\* the overlay as its caller left it; when a frame fails, the overlay it
\* returns is the overlay of its entry, so that the changes of the frames that
\* completed below it are undone with its own and the changes of its
\* ancestors are kept; a frame that succeeds keeps the overlay it has, whatever
\* failed below it. The exception is a creation that cannot pay for the
\* storage of its code before Homestead: it fails and keeps what the frame did.
C28_SnapshotsNest ==
    [][/\ SnapshotsNest
       /\ SuccessKeeps
       /\ Returning /\ lastRet'.err # ErrNone /\ ~KeptCreation => lastRet'.atReturn = AtEntry
       /\ Returning /\ KeptCreation => lastRet'.atReturn = txn]_vars

\* the mark at the slot of A in an overlay
MarkIn(t) == GetState(t, "A", "k1")

\* the root frame wrote 1 and called; the callee wrote 3 and called; the frame
\* below wrote 5 and returned; the callee failed: the slot holds 1 again
C28_Witness ==
    /\ lastRet.valid
    /\ lastRet.depth = 1
    /\ lastRet.err # ErrNone
    /\ MarkIn(lastRet.before) = 5
    /\ MarkIn(lastRet.atReturn) = 1
    /\ MarkIn(txn) = 1

\* after that the root frame wrote 7 and returned: the transaction keeps 7
C28_ParentKeeps ==
    /\ result.kind = "output"
    /\ result.output.Success
    /\ nsteps = NestSteps
    /\ MarkIn(txn) = 7
    /\ lastOp.op = SSTORE

\* a creation at Frontier fails on the storage of its code and keeps its
\* account
C28_KeptAtFrontier ==
    /\ lastRet.valid
    /\ lastRet.err = ErrCodeStoreOutOfGas
    /\ lastRet.atReturn # lastRet.atSnapshot

\* ---------------------------------------------------------------------------
\* The logs of a transaction
\* ---------------------------------------------------------------------------

\* calls of the contract A with the nonces 0 and 1, and a creation that can
\* pay for a log and not for its code before Homestead
LogMsgs ==
    { [NoMsg EXCEPT !.gas = 300000, !.to = "A", !.nonce = n] : n \in {0, 1} }
    \cup { [NoMsg EXCEPT !.gas = 21558, !.input = InitCode] }

InitLogs ==
    /\ rev \in NestRevs
    /\ txn = EmptyTxn
    /\ snapshots = <<>>
    /\ msg = NoMsg
    /\ frames = <<>>
    /\ result = NoResult
    /\ nsteps = 0
    /\ lastOp = NoOp
    /\ lastRet = NoRet
    /\ interp = NoInterp

\* LOG0 of as many bytes as the step has steps before it, itself included:
\* every log of a Transition has its own length
NestLog == \E n \in 1..NestSteps : n = nsteps + 1 /\ OpLogIn(NestLimits, 0, n)

\* a later Write of the Transition: the instructions left are those the
\* earlier transactions did not run
WriteAgain(m) ==
    /\ result.kind = "output"
    /\ Len(result.accepted) < MaxWrites
    /\ WriteBody(m, result.accepted)
    /\ UNCHANGED <<nsteps, lastOp>>

\* REVERT in any frame, RETURN of one byte of code in a creation
LogHalt ==
    \E op \in {RETURN, REVERT} :
        /\ frames # <<>>
        /\ (op = RETURN) => Top.type = KindCreate
        /\ OpHaltIn(NestLimits, op, 1)

NextLogs ==
    \/ \E m \in LogMsgs : Write(m)
    \/ \E m \in LogMsgs : WriteAgain(m)
    \/ NestLog
    \/ NestCall
    \/ LogHalt
    \/ RunOffEnd
    \/ FrameReturn

SpecLogs == InitLogs /\ [][NextLogs]_vars

\* the step dispatched an instruction
Dispatched1 == nsteps' = nsteps + 1

\* the step is a LOG that reached EmitLog
Emitted == Dispatched1 /\ lastOp'.op = LOG /\ lastOp'.muts # <<>>

\* the log the step emits
LogOfStep == [address |-> Top.address, topics |-> <<>>, data |-> MemBytes(nsteps + 1)]

\* the lengths of the logs of a list
Marks(logs) == [i \in DOMAIN logs |-> Len(logs[i].data)]

\* the logs the step leaves: in the Output when the root frame returns, in the
\* overlay otherwise
LogsLeft == IF frames' = <<>> THEN result'.output.Logs ELSE txn'.logs

\* what the steps of a transaction do to the list of logs, except for the
\* return of a frame that failed
LogsFollow ==
    /\ Emitted => txn'.logs = Append(txn.logs, LogOfStep)
    /\ Dispatched1 /\ ~Emitted => txn'.logs = txn.logs
    /\ Returning /\ lastRet'.err = ErrNone => LogsLeft = txn.logs
    /\ frames' = <<>> => txn'.logs = <<>>
    /\ frames = <<>> /\ frames' # <<>> => snapshots'[frames'[1].snapshot + 1].logs = <<>>
    /\ \A i, j \in DOMAIN txn'.logs : i < j => Len(txn'.logs[i].data) < Len(txn'.logs[j].data)

\* C29 as stated: Output.Logs holds the logs of the frames that did not fail
\* and have no failed ancestor, in the order of emission: a log is appended
\* when it is emitted, a frame that fails leaves the list it found on entry, a
\* frame that succeeds leaves the list as it is, the Output takes the list and
\* the overlay keeps none of it for the next transaction.
C29_AsStated ==
    [][/\ LogsFollow
       /\ Returning /\ lastRet'.err # ErrNone => LogsLeft = AtEntry.logs]_vars

\* C29: the same, except for a creation that cannot pay for the storage of its
\* code before Homestead: it fails and the logs emitted in it and below it stay.
C29_LogsOfLiveFrames ==
    [][/\ LogsFollow
       /\ Returning /\ lastRet'.err # ErrNone /\ ~KeptCreation => LogsLeft = AtEntry.logs
       /\ Returning /\ KeptCreation => LogsLeft = txn.logs]_vars

\* the root frame logged at step 1 and called; the callee logged at 3 and
\* called; the frame below logged at 5 and returned; the callee failed; the
\* root logged at 7 and returned: the Output has the logs 1 and 7
C29_Witness ==
    /\ result.kind = "output"
    /\ result.output.Success
    /\ Marks(result.output.Logs) = <<1, 7>>
    /\ lastRet.depth = 0
    /\ txn.logs = <<>>

\* a second transaction whose Output has its own log only, after a first
\* transaction that logged
C29_SecondOutput ==
    /\ result.kind = "output"
    /\ Len(result.accepted) = MaxWrites
    /\ Marks(result.output.Logs) = <<3>>

\* a creation at Frontier fails on the storage of its code and its log is in
\* the Output
C29_FailedButLogged ==
    /\ result.kind = "output"
    /\ ~result.output.Success
    /\ result.output.Logs # <<>>

\* ---------------------------------------------------------------------------
\* The gas a CALL hands to its callee
\* ---------------------------------------------------------------------------

\* the last instruction is a call whose handler set gas aside for a callee
CallHanded == lastOp.op \in CallOps /\ lastOp.ran /\ lastOp.err = ErrNone /\ lastOp.pushed # 1
                 /\ (lastOp.called \/ lastOp.pushed = 0)

\* the gas of the callee without the stipend
Handed == lastOp.reserved - (IF lastOp.op \in {CALL, CALLCODE} /\ lastOp.value # 0 THEN 2300 ELSE 0)

\* the cost of the opcode itself: what consumeGas took less the gas of the
\* callee, as uint64
OwnCost == u64(lastOp.cost - Handed + U64)

\* C30 as stated: for every CALL-family opcode at every revision and every
\* requested gas, the gas handed to the callee, the stipend not counted, never
\* exceeds the gas the caller has left after the cost of the opcode is charged;
\* no wrap-around in cost + gas lets a callee receive more gas than its caller
\* held.
C30_AsStated == CallHanded => Handed <= lastOp.gasBefore - OwnCost

\* from Tangerine Whistle the gas handed is at most the gas left less its 64th
C30_FromTangerine ==
    CallHanded /\ isRevisionOf(rev, TangerineWhistle) =>
        Handed <= (lastOp.gasBefore - OwnCost) - (lastOp.gasBefore - OwnCost) \div 64

\* a callee runs with more gas than its caller had
C30_MoreThanHeld ==
    /\ CallHanded
    /\ lastOp.called
    /\ Len(frames) > 1
    /\ Top.gas > lastOp.gasBefore

\* ---------------------------------------------------------------------------
\* Interpreter: the handlers that index the memory slice
\* ---------------------------------------------------------------------------

copyGas == 3

errReturnDataOutOfBounds == "return data out of bounds"

\* a frame with its memory as a Go slice: frame.memory is len(c.memory), cap
\* its capacity; panicked is set when an index expression is out of range,
\* which ends the process
WindowStart(g, returnData, cap) ==
    [frame |-> JumpRunStart(<<ByteStop>>, <<>>, g), returnData |-> returnData, cap |-> cap,
     panicked |-> FALSE, op |-> "none", offset |-> 0, size |-> 0, copied |-> 0]

\* extendByteSlice on a slice of capacity cap (the runtime may give more)
capAfter(cap, len) == IF len > cap THEN len ELSE cap

\* opReturnDataCopy after the three pops
opReturnDataCopy(w, r, memOffset, dataOffset, length) ==
    LET rec == [w EXCEPT !.op = "RETURNDATACOPY", !.offset = memOffset, !.size = length]
        \* f2: the frame after the gas of the copy
        Copied(f2) ==
            LET end == dataOffset + length
            IN IF f2.stop THEN [rec EXCEPT !.frame = f2]
               ELSE IF ~IsUint64(end) \/ Len(w.returnData) < u64(end)
               THEN [rec EXCEPT !.frame = exit(f2, errReturnDataOutOfBounds)]
               \* c.memory[memOffset.Uint64():]
               ELSE IF Uint64(memOffset) > f2.memory
               THEN [rec EXCEPT !.frame = halt(f2), !.panicked = TRUE]
               ELSE [rec EXCEPT !.frame = f2, !.cap = capAfter(w.cap, f2.memory),
                                !.copied = u64(end) - Uint64(dataOffset)]
        \* f1: the frame after checkMemory
        Checked(f1) ==
            IF f1.stop THEN [rec EXCEPT !.frame = f1]
            ELSE Copied(consumeGas(f1, u64(((Uint64(length) + 31) \div 32) * copyGas)))
    IN IF ~isRevisionOf(r, Byzantium) THEN [rec EXCEPT !.frame = exit(w.frame, errOpCodeNotFound)]
       ELSE Checked(checkMemory(w.frame, memOffset, length))

\* opCall from the check of the return area on, for a callee that returns
\* retLen bytes and no gas
opCallWindow(w, retOffset, retSize, retLen) ==
    LET rec == [w EXCEPT !.op = "CALL", !.offset = retOffset, !.size = retSize]
        \* f1: the frame after checkMemory; cap1: the capacity of its memory
        Returned(f1, cap1) ==
            IF f1.stop THEN [rec EXCEPT !.frame = f1]
            \* c.memory[offset:offset+size]
            ELSE IF retLen # 0 /\ (Uint64(retOffset) > cap1
                                    \/ u64(Uint64(retOffset) + Uint64(retSize)) > cap1
                                    \/ u64(Uint64(retOffset) + Uint64(retSize)) < Uint64(retOffset))
            THEN [rec EXCEPT !.frame = halt(f1), !.panicked = TRUE]
            ELSE [rec EXCEPT !.frame = f1, !.cap = cap1, !.returnData = MemBytes(retLen),
                             !.copied = IF retLen = 0 THEN 0 ELSE Min(retLen, Uint64(retSize))]
        Checked(f1) == Returned(f1, capAfter(w.cap, f1.memory))
    IN Checked(checkMemory(w.frame, retOffset, retSize))

\* offsets: inside the first words, past them, past the machine word
WindowOffsets == {0, 1, 32, 64, 65, U64 + 1}
WindowSizes == {0, 1, 32}
WindowGases == {2, 1000}

InitWindow ==
    /\ rev \in {Homestead, Byzantium}
    /\ txn = EmptyTxn
    /\ snapshots = <<>>
    /\ msg = NoMsg
    /\ frames = <<>>
    /\ result = NoResult
    /\ nsteps = 0
    /\ lastOp = NoOp
    /\ lastRet = NoRet
    /\ interp \in { WindowStart(g, MemBytes(n), c) : g \in WindowGases, n \in {0, 32}, c \in {0, 64} }

WindowReturnDataCopy ==
    /\ ~interp.frame.stop
    /\ nsteps < MaxAccess
    /\ \E memOffset \in WindowOffsets, dataOffset \in WindowSizes, length \in WindowSizes :
          interp' = opReturnDataCopy(interp, rev, memOffset, dataOffset, length)
    /\ nsteps' = nsteps + 1
    /\ UNCHANGED <<rev, txn, snapshots, msg, frames, result, lastOp, lastRet>>

WindowCall ==
    /\ ~interp.frame.stop
    /\ nsteps < MaxAccess
    /\ \E retOffset \in WindowOffsets, retSize \in WindowSizes, retLen \in WindowSizes :
          interp' = opCallWindow(interp, retOffset, retSize, retLen)
    /\ nsteps' = nsteps + 1
    /\ UNCHANGED <<rev, txn, snapshots, msg, frames, result, lastOp, lastRet>>

NextWindow ==
    \/ WindowReturnDataCopy
    \/ WindowCall

SpecWindow == InitWindow /\ [][NextWindow]_vars

\* C31: no handler indexes the memory outside of it: for every combination of
\* operands, a zero size with a large offset included (the return window of a
\* CALL with retSize 0 and a callee that returns data, RETURNDATACOPY of length
\* 0), the handler completes or halts the frame with an error, and never
\* faults on an index out of range.
C31_AsStated == ~interp.panicked

\* with a size other than zero the handlers stay inside the memory
C31_NonZeroSize == interp.panicked => interp.size = 0

\* RETURNDATACOPY of length 0 at an offset past the memory
C31_CopyFaults ==
    /\ interp.panicked
    /\ interp.op = "RETURNDATACOPY"
    /\ interp.size = 0
    /\ interp.offset > interp.frame.memory

\* the return window of size 0 past the capacity of the memory
C31_WindowFaults ==
    /\ interp.panicked
    /\ interp.op = "CALL"
    /\ interp.size = 0


\* ---------------------------------------------------------------------------
\* The refund counter across sweeps
\* ---------------------------------------------------------------------------

\* the last step was a write whose net-metering branch applied SubRefund(15000):
\* a slot whose committed value is non-zero and whose current value was zero
SubRefundApplied ==
    /\ lastOp.op \in {"SetStorage", "SStore"}
    /\ lastOp.status = StorageModifiedAgain
    /\ lastOp.original # 0
    /\ lastOp.current = 0

\* C32: SubRefund(15000) is only ever applied when the refund counter is at
\* least 15000, so the unsigned counter never wraps around, over any sequence
\* of SetStorage calls, reverts and CleanDeleteObjects sweeps.
C32_AsStated ==
    SubRefundApplied => GetRefund(lastOp.before) >= 15000

\* C32: a slot cleared before a sweep and set again after it takes 15000 from a
\* counter the sweep has deleted: the counter wraps.
C32_Wrapped ==
    /\ SubRefundApplied
    /\ GetRefund(lastOp.before) = 0
    /\ GetRefund(txn) = U64 - 15000
    /\ lastOp.prev.op = "CleanDeleteObjects"


\* ---------------------------------------------------------------------------
\* Conservation of value
\* ---------------------------------------------------------------------------

RECURSIVE BalanceOf(_, _)
\* the sum of the balances the overlay t shows for the addresses of S
BalanceOf(t, S) ==
    IF S = {} THEN 0
    ELSE LET a == CHOOSE x \in S : TRUE IN GetBalance(t, a) + BalanceOf(t, S \ {a})

\* the amounts a transfer is tried with
TransferAmounts == {0, 1, SenderFunds}

\* Transition.transfer on the overlay t: the amount moves from one account to
\* the other, or the transfer fails and the overlay is the one it was given
TransferExact(t) ==
    \A from \in OrdinaryAddrs, to \in OrdinaryAddrs, amount \in TransferAmounts :
        LET Moved(tr) ==
                IF tr.ok
                THEN /\ GetBalance(t, from) >= amount
                     /\ GetBalance(tr.txn, from) = GetBalance(t, from) - (IF from = to THEN 0 ELSE amount)
                     /\ GetBalance(tr.txn, to) = GetBalance(t, to) + (IF from = to THEN 0 ELSE amount)
                     /\ \A a \in Addrs \ {from, to} : GetBalance(tr.txn, a) = GetBalance(t, a)
                ELSE /\ GetBalance(t, from) < amount
                     /\ tr.txn = t
        IN Moved(transfer(t, from, to, amount))

\* some account of the overlay carries the self-destruct mark
Burning(t) == \E a \in Addrs : t.objs[a].present /\ t.objs[a].suicide

\* a Write has returned an Output
WriteDone == result.kind = "output" /\ frames = <<>>

\* C33: executing a transaction never creates value: no balance is negative, a
\* transfer moves exactly the amount or fails and leaves the balances, and the
\* sum of all balances after a Write is at most the sum before it, lower only
\* by what self-destructed accounts burn.
C33_AsStated ==
    /\ \A a \in Addrs : GetBalance(txn, a) >= 0
    /\ TransferExact(txn)
    /\ WriteDone => /\ BalanceOf(txn, Addrs) <= BalanceOf(result.pre, Addrs)
                  /\ (~Burning(txn) => BalanceOf(txn, Addrs) = BalanceOf(result.pre, Addrs))

\* C33: from Tangerine Whistle on, where CALL cannot hand out gas its frame
\* does not hold, the statement holds.
C33_FromTangerine == isRevisionOf(rev, TangerineWhistle) => C33_AsStated

\* C33: a Write at Frontier that ends with more value than it began with.
C33_Created ==
    /\ WriteDone
    /\ rev = Frontier
    /\ BalanceOf(txn, Addrs) > BalanceOf(result.pre, Addrs)


\* ---------------------------------------------------------------------------
\* Calls and creations the account cannot pay for
\* ---------------------------------------------------------------------------

\* the step dispatches CALL, CALLCODE, CREATE or CREATE2 with a non-zero value
\* above the balance of the account the frame runs as, and the handler returns
\* without halting the frame
Unfunded(ops) ==
    /\ frames # <<>>
    /\ nsteps' = nsteps + 1
    /\ lastOp'.op \in ops
    /\ lastOp'.ran
    /\ lastOp'.err = ErrNone
    /\ lastOp'.value # 0
    /\ GetBalance(txn, Top.address) < lastOp'.value

\* the handler pushed 0 and neither the Host nor the overlay saw the step
Refused ==
    /\ lastOp'.pushed = 0
    /\ ~lastOp'.called
    /\ lastOp'.muts = <<>>
    /\ txn' = txn
    /\ Len(frames') = Len(frames)
    /\ UNCHANGED lastRet

\* what the frame holds less after the step than before it
Consumed(op) == op.gasBefore - op.gasAfter

\* the cost of a CALL or CALLCODE without the gas of the callee, as the handler
\* computed it
OwnCostOf(op) == u64(op.cost - (op.reserved - 2300) + U64)

\* C34: a CALL or CALLCODE with a non-zero value above the balance of the
\* account, and a CREATE or CREATE2 with such a value, pushes 0 without
\* invoking the Host and without changing any balance; for CALL and CALLCODE
\* the reserved gas, the 2300 stipend included, is returned and only the
\* opcode's own cost stays consumed.
C34_AsStated ==
    [][ /\ Unfunded(CallOps \cup CreateOps) => Refused
        /\ Unfunded({CALL, CALLCODE}) => Consumed(lastOp') = OwnCostOf(lastOp') - 2300 ]_vars

\* C34: from Tangerine Whistle on, where the gas of the callee is capped by
\* what the frame holds, the statement holds.
C34_FromTangerine ==
    [][ isRevisionOf(rev, TangerineWhistle) =>
            /\ Unfunded(CallOps \cup CreateOps) => Refused
            /\ Unfunded({CALL, CALLCODE}) => Consumed(lastOp') = OwnCostOf(lastOp') - 2300 ]_vars

\* C34: in every revision the step is refused without a Host call or a change
\* of the overlay.
C34_Refused == [][ Unfunded(CallOps \cup CreateOps) => Refused ]_vars

\* C34: a refused CALL at Frontier after which the frame holds more gas than
\* before it.
C34_GasGained ==
    /\ rev = Frontier
    /\ lastOp.op = CALL /\ lastOp.ran /\ lastOp.err = ErrNone
    /\ lastOp.value = SenderFunds + 1 /\ lastOp.pushed = 0 /\ ~lastOp.called
    /\ lastOp.gasAfter > lastOp.gasBefore

\* C34: a refused CREATE and a refused CALLCODE.
C34_RefusedCreate ==
    /\ lastOp.op = CREATE /\ lastOp.ran /\ lastOp.err = ErrNone
    /\ lastOp.value = SenderFunds + 1 /\ lastOp.pushed = 0 /\ ~lastOp.called


\* ---------------------------------------------------------------------------
\* The static flag along the call tree
\* ---------------------------------------------------------------------------

StaticLimits == [steps |-> NestSteps - 3, frames |-> NestFrames]

\* the revisions that have STATICCALL
StaticRevs == {Byzantium, Istanbul}

InitStatic ==
    /\ rev \in StaticRevs
    /\ txn = EmptyTxn
    /\ snapshots = <<>>
    /\ msg = NoMsg
    /\ frames = <<>>
    /\ result = NoResult
    /\ nsteps = 0
    /\ lastOp = NoOp
    /\ lastRet = NoRet
    /\ interp = NoInterp

\* a CALL-family opcode to the contract A or to the account N that does not
\* exist, with and without a value
StaticCall ==
    \E op \in CallOps, addr \in {"A", "N"}, value \in {0, 1} :
        /\ value = 1 => op = CALL /\ addr = "N"
        /\ OpCallIn(StaticLimits, op, 30000, addr, value)

NextStatic ==
    \/ Write([NoMsg EXCEPT !.gas = 300000, !.to = "A"])
    \/ StaticCall
    \/ OpSStoreIn(StaticLimits, "k1", 2)
    \/ OpLogIn(StaticLimits, 0, 0)
    \/ OpCreateIn(StaticLimits, CREATE, 0, 2)
    \/ OpSelfDestruct("CB")
    \/ OpHaltIn(StaticLimits, REVERT, 1)
    \/ RunOffEnd
    \/ FrameReturn

SpecStatic == InitStatic /\ [][NextStatic]_vars

\* what the getters of the overlay t show: balance, nonce, code, storage and
\* self-destruct mark of every account, the logs and the refund counter
Observed(t) ==
    [accounts |-> [a \in Addrs |->
                      [balance |-> GetBalance(t, a), nonce |-> GetNonce(t, a), code |-> GetCode(t, a),
                       storage |-> [k \in Keys |-> GetState(t, a, k)], suicided |-> HasSuicided(t, a)]],
     logs |-> t.logs, refund |-> GetRefund(t)]

\* every frame started by STATICCALL or from a static frame is static
Inherited ==
    \A i \in DOMAIN frames :
        i > 1 /\ (frames[i - 1].pending.op = STATICCALL \/ frames[i - 1].static) => frames[i].static

\* C35: the static flag is inherited down the call tree: every frame started
\* by STATICCALL, and every frame started by a CALL-family opcode from a
\* static frame, runs with static = true, and no step taken while the
\* innermost frame is static changes what the overlay shows.
C35_StaticInherited ==
    [][ /\ Inherited'
        /\ frames # <<>> /\ Top.static => Observed(txn') = Observed(txn) ]_vars

\* C35: the grandchild of a STATICCALL, started by CALL, CALLCODE or
\* DELEGATECALL, has tried to write and halted with WriteProtection.
C35_Witness ==
    /\ Len(frames) = 3
    /\ ~frames[1].static /\ frames[1].pending.op = STATICCALL
    /\ frames[2].static /\ frames[2].pending.op \in {CALL, CALLCODE, DELEGATECALL}
    /\ frames[3].static
    /\ lastOp.op = SSTORE /\ lastOp.depth = 2 /\ lastOp.err = errWriteProtection


\* ---------------------------------------------------------------------------
\* The creator's nonce
\* ---------------------------------------------------------------------------

SeqLimits == [steps |-> NestSteps - 3, frames |-> NestFrames]

\* Frontier, where only CREATE exists, and Istanbul, where the created account
\* starts with nonce 1
SeqRevs == {Frontier, Istanbul}

InitSeq ==
    /\ rev \in SeqRevs
    /\ txn = EmptyTxn
    /\ snapshots = <<>>
    /\ msg = NoMsg
    /\ frames = <<>>
    /\ result = NoResult
    /\ nsteps = 0
    /\ lastOp = NoOp
    /\ lastRet = NoRet
    /\ interp = NoInterp

NextSeq ==
    \/ Write([NoMsg EXCEPT !.gas = 3000000, !.to = "A"])
    \/ \E op \in CreateOps, value \in {0, 1} : OpCreateIn(SeqLimits, op, value, 2)
    \/ OpCallIn(SeqLimits, CALL, 100000, "A", 0)
    \/ OpFaultIn(SeqLimits, errStackUnderflow)
    \/ OpHaltIn(SeqLimits, REVERT, 1)
    \/ RunOffEnd
    \/ FrameReturn

SpecSeq == InitSeq /\ [][NextSeq]_vars

\* the step is a CREATE or CREATE2 whose handler reached the Host
CreateReached ==
    /\ frames # <<>>
    /\ nsteps' = nsteps + 1
    /\ lastOp'.op \in CreateOps
    /\ lastOp'.called

\* the step returns from the frame of a creation to the frame of its creator
CreationReturns ==
    /\ Len(frames) > 1
    /\ Top.stop
    /\ Top.type \in {KindCreate, KindCreate2}
    /\ Len(frames') = Len(frames) - 1

\* the creation before this one was made by the same frame: the last
\* instruction of a frame that has run one is its own
SameFrameCreated ==
    /\ Top.consumed > 0
    /\ lastOp.op \in CreateOps
    /\ lastOp.called
    /\ lastRet.valid
    /\ lastRet.type \in {KindCreate, KindCreate2}

\* the nonce of account a the creation before this one found: the overlay at
\* its snapshot holds the increment, the overlay of a collision is the one
\* before it
NonceFound(a) == GetNonce(lastRet.atSnapshot, a) - (IF lastRet.hasSnap THEN 1 ELSE 0)

\* C36: every CREATE / CREATE2 that reaches the Host increments the creator's
\* nonce by exactly one; the increment is in the snapshot of the creation's
\* frame and is still there when the creation has failed, collided or
\* reverted; two successive creations of one frame find different nonces.
C36_CreatorNonce ==
    [][ /\ CreateReached =>
              /\ GetNonce(txn', Top.address) = GetNonce(txn, Top.address) + 1
              /\ Len(frames') > Len(frames) =>
                     GetNonce(snapshots'[frames'[Len(frames')].snapshot + 1], Top.address)
                         = GetNonce(txn, Top.address) + 1
        /\ CreationReturns =>
              GetNonce(txn', Top.caller) >= GetNonce(snapshots[Top.snapshot + 1], Top.caller)
        /\ CreateReached /\ SameFrameCreated =>
              GetNonce(txn, Top.address) > NonceFound(Top.address) ]_vars

\* C36: the contract A has made two creations that both ended reverted: its
\* nonce went from 1 to 3 and the address it created at holds no account.
C36_Witness ==
    /\ Len(frames) = 1
    /\ Top.address = "A"
    /\ lastOp.op = CREATE2 /\ lastOp.called /\ lastOp.pushed = 0
    /\ lastRet.valid /\ lastRet.ran /\ lastRet.err = ErrExecutionReverted
    /\ nsteps = SeqLimits.steps
    /\ GetNonce(txn, "A") = 3
    /\ GetNonce(txn, "N") = 0


\* ---------------------------------------------------------------------------
\* The refund of SELFDESTRUCT
\* ---------------------------------------------------------------------------

DestructLimits == [steps |-> NestSteps - 3, frames |-> NestFrames]

InitDestruct ==
    /\ rev \in NestRevs
    /\ txn = EmptyTxn
    /\ snapshots = <<>>
    /\ msg = NoMsg
    /\ frames = <<>>
    /\ result = NoResult
    /\ nsteps = 0
    /\ lastOp = NoOp
    /\ lastRet = NoRet
    /\ interp = NoInterp

\* a CALL of the contract A with more and with less gas than a byte of code
\* costs to store
DestructCall == \E g \in {30, 30000} : OpCallIn(DestructLimits, CALL, g, "A", 0)

NextDestruct ==
    \/ \E m \in NestMsgs : Write(m)
    \/ \E b \in {"CB", "A"} : OpSelfDestructIn(DestructLimits, b)
    \/ DestructCall
    \/ OpFaultIn(DestructLimits, errStackUnderflow)
    \/ \E op \in {RETURN, REVERT} : OpHaltIn(DestructLimits, op, 1)
    \/ RunOffEnd
    \/ FrameReturn

SpecDestruct == InitDestruct /\ [][NextDestruct]_vars

\* the step is a SELFDESTRUCT whose handler reached the Host
Destructs ==
    /\ frames # <<>>
    /\ nsteps' = nsteps + 1
    /\ lastOp'.op = SELFDESTRUCT
    /\ lastOp'.ran
    /\ lastOp'.err = ErrNone

\* the addresses that carry the self-destruct mark in the overlay t
Marked(t) == {a \in Addrs : HasSuicided(t, a)}

\* the self-destruct of account a: the refund is added unless a is marked
\* already, a is marked and holds nothing, one account b receives what a held
\* (nothing is received when a names itself), and the frame halts
Destructed(a) ==
    /\ GetRefund(txn') = GetRefund(txn) + (IF HasSuicided(txn, a) THEN 0 ELSE 24000)
    /\ Marked(txn') = Marked(txn) \cup {a}
    /\ GetBalance(txn', a) = 0
    /\ \E b \in Addrs :
          /\ b # a => GetBalance(txn', b) = GetBalance(txn, b) + GetBalance(txn, a)
          /\ \A c \in Addrs \ {a, b} : GetBalance(txn', c) = GetBalance(txn, c)
    /\ frames'[Len(frames')].stop
    /\ frames'[Len(frames')].err = ErrNone

\* the refund counter holds 24000 for every marked address and nothing else
OncePerAddress == GetRefund(txn') = 24000 * Cardinality(Marked(txn'))

C37_Undone ==
    /\ lastRet.valid /\ lastRet.ran /\ lastRet.err # ErrNone
    /\ Marked(lastRet.before) = {"A"}
    /\ GetRefund(lastRet.before) = 24000
    /\ Marked(lastRet.atReturn) = {}
    /\ GetRefund(lastRet.atReturn) = 0

\* C37: a creation at Frontier that fails on the storage of its code after the
\* contract it called has self-destructed: the mark and the refund stay
C37_KeptAtFrontier ==
    /\ rev = Frontier
    /\ lastRet.valid /\ lastRet.type = KindCreate /\ lastRet.err = ErrCodeStoreOutOfGas
    /\ Marked(lastRet.atReturn) = {"A"}
    /\ GetRefund(lastRet.atReturn) = 24000


\* ---------------------------------------------------------------------------
\* The return-data buffer
\* ---------------------------------------------------------------------------

ReturnLimits == [steps |-> NestSteps - 2, frames |-> MaxFrames]

InitReturn ==
    /\ rev \in StaticRevs
    /\ txn = EmptyTxn
    /\ snapshots = <<>>
    /\ msg = NoMsg
    /\ frames = <<>>
    /\ result = NoResult
    /\ nsteps = 0
    /\ lastOp = NoOp
    /\ lastRet = NoRet
    /\ interp = NoInterp

\* the frame as opReturnDataCopy sees it, its memory a slice without spare
\* capacity
WindowOf(f) ==
    [frame |-> f, returnData |-> f.returnData, cap |-> f.memory,
     panicked |-> FALSE, op |-> "none", offset |-> 0, size |-> 0, copied |-> 0]

\* RETURNDATACOPY in the innermost frame; the record of the step keeps the
\* data offset as value and the length as reserved, and interp the handler's
\* own record
OpReturnDataCopyIn(lim, memOffset, dataOffset, length) ==
    /\ CanDispatch
    /\ nsteps < lim.steps
    /\ nsteps' = nsteps + 1
    /\ LET \* f0: the frame after the base gas; h: what the handler did
           Handled(f0, h) ==
               /\ frames' = SetTop(h.frame)
               /\ interp' = h
               /\ lastOp' = StepRec(RETURNDATACOPY, Top, h.frame, ~f0.stop, <<>>, FALSE, -1,
                                    dataOffset, length, Top.gas - h.frame.gas)
           Charged(f0) == Handled(f0, IF f0.stop THEN [WindowOf(f0) EXCEPT !.op = RETURNDATACOPY]
                                      ELSE opReturnDataCopy(WindowOf(f0), rev, memOffset, dataOffset, length))
       IN Charged(consumeGas(Top, baseGas(RETURNDATACOPY)))
    /\ UNCHANGED <<rev, txn, snapshots, msg, result, lastRet>>

\* a callee that is the contract A, and a CALL the account cannot pay for
ReturnCall ==
    \E op \in {CALL, STATICCALL, DELEGATECALL}, value \in {0, SenderFunds + 1} :
        /\ value # 0 => op = CALL
        /\ OpCallIn(ReturnLimits, op, 30000, "A", value)

NextReturn ==
    \/ Write([NoMsg EXCEPT !.gas = 300000, !.to = "A"])
    \/ ReturnCall
    \/ OpCreateIn(ReturnLimits, CREATE2, 0, 2)
    \/ \E op \in {RETURN, REVERT}, size \in {1, 2} : OpHaltIn(ReturnLimits, op, size)
    \/ OpFaultIn(ReturnLimits, errStackUnderflow)
    \/ \E dataOffset \in {0, 1}, length \in {0, 1, 2} :
          OpReturnDataCopyIn(ReturnLimits, 0, dataOffset, length)
    \/ RunOffEnd
    \/ FrameReturn

SpecReturn == InitReturn /\ [][NextReturn]_vars

\* what the innermost frame hands to its caller's buffer: the bytes of its
\* RETURN unless it is a creation, the bytes of its REVERT, nothing otherwise
Payload ==
    IF Top.err = ErrExecutionReverted THEN Top.ret
    ELSE IF Top.err = ErrNone /\ Top.type \notin {KindCreate, KindCreate2} THEN Top.ret
    ELSE NoBytes

\* a CALL-family or creation opcode whose handler returned to its frame
\* without starting a frame
CallStays ==
    /\ frames # <<>>
    /\ nsteps' = nsteps + 1
    /\ lastOp'.op \in CallOps \cup CreateOps
    /\ lastOp'.ran
    /\ lastOp'.err = ErrNone
    /\ Len(frames') = Len(frames)

\* a CALL-family or creation opcode that starts a frame
CallDescends == frames # <<>> /\ Len(frames') = Len(frames) + 1

\* a RETURNDATACOPY whose handler ran
Copies == frames # <<>> /\ nsteps' = nsteps + 1 /\ lastOp'.op = RETURNDATACOPY /\ lastOp'.ran

C38_OutOfBounds ==
    /\ frames # <<>>
    /\ lastOp.op = RETURNDATACOPY /\ lastOp.err = errReturnDataOutOfBounds
    /\ Len(Top.returnData) = 2
    /\ lastOp.value + lastOp.reserved = 3

\* C38: the bytes of a REVERT in the buffer of the caller
C38_RevertPayload ==
    /\ Len(frames) = 1
    /\ lastOp.op \in CallOps /\ lastOp.pushed = 0
    /\ lastRet.valid /\ lastRet.err = ErrExecutionReverted
    /\ Len(Top.returnData) = 2

\* C38: a creation that stored the byte its init code returned: empty buffer
C38_CreatedEmpty ==
    /\ Len(frames) = 1
    /\ lastOp.op = CREATE2 /\ lastOp.pushed = 1
    /\ lastRet.valid /\ lastRet.err = ErrNone /\ Len(lastRet.frameRet) = 1
    /\ Top.returnData = NoBytes


\* ---------------------------------------------------------------------------
\* SSTORE with no more gas than the stipend
\* ---------------------------------------------------------------------------

StipendLimits == [steps |-> MaxSteps + 1, frames |-> MaxFrames]

\* messages whose frame begins with 2300, 2301 and many more gas
StipendMsgs == { [NoMsg EXCEPT !.gas = 21000 + g, !.to = "A"] : g \in {2300, 2301, 279000} }

InitStipend ==
    /\ rev \in {Byzantium, Istanbul}
    /\ txn = EmptyTxn
    /\ snapshots = <<>>
    /\ msg = NoMsg
    /\ frames = <<>>
    /\ result = NoResult
    /\ nsteps = 0
    /\ lastOp = NoOp
    /\ lastRet = NoRet
    /\ interp = NoInterp

\* a callee that begins with 2300, 2301 or 30000 gas, static or not
StipendCall ==
    \E op \in {CALL, STATICCALL}, g \in {2300, 2301, 30000} : OpCallIn(StipendLimits, op, g, "A", 0)

NextStipend ==
    \/ \E m \in StipendMsgs : Write(m)
    \/ StipendCall
    \/ \E val \in StoreVals : OpSStoreIn(StipendLimits, "k1", val)
    \/ RunOffEnd
    \/ FrameReturn

SpecStipend == InitStipend /\ [][NextStipend]_vars

\* an SSTORE from Istanbul on in a frame that holds at most 2300 gas after the
\* base charge of the opcode
LowGasStore ==
    /\ frames # <<>>
    /\ nsteps' = nsteps + 1
    /\ lastOp'.op = SSTORE
    /\ isRevisionOf(rev, Istanbul)
    /\ Top.gas >= baseGas(SSTORE)
    /\ Top.gas - baseGas(SSTORE) <= 2300

\* the step halted the frame and neither the Host nor the overlay saw it
NotStored ==
    /\ frames'[Len(frames')].stop
    /\ lastOp'.muts = <<>>
    /\ txn' = txn

\* C39 as stated: from Istanbul on, an SSTORE executed when the frame holds at
\* most 2300 gas halts the frame with OutOfGas without calling SetStorage:
\* neither the slot nor the refund counter changes.
C39_AsStated == [][LowGasStore => NotStored /\ lastOp'.err = errOutOfGas]_vars

\* C39: from Istanbul on, an SSTORE executed when the frame holds at most 2300
\* gas halts the frame without calling SetStorage, so that neither the slot
\* nor the refund counter changes: with OutOfGas in a frame that is not
\* static, with WriteProtection in a static frame.
C39_Sentry ==
    [][LowGasStore =>
          /\ NotStored
          /\ lastOp'.err = IF Top.static THEN errWriteProtection ELSE errOutOfGas]_vars

\* C39: a frame with exactly 2300 gas at Istanbul has halted with OutOfGas on
\* its SSTORE
C39_Witness ==
    /\ rev = Istanbul
    /\ frames # <<>>
    /\ lastOp.op = SSTORE /\ lastOp.ran /\ lastOp.err = errOutOfGas
    /\ ~lastOp.static
    /\ lastOp.gasBefore = 2300
    /\ lastOp.gasAfter = 2300
    /\ lastOp.muts = <<>>

\* C39: with 2301 gas the handler calls SetStorage
C39_JustAbove ==
    /\ rev = Istanbul
    /\ lastOp.op = SSTORE /\ lastOp.ran
    /\ lastOp.gasBefore = 2301
    /\ lastOp.muts # <<>>

\* C39: a static frame with 2300 gas halts with WriteProtection
C39_StaticFirst ==
    /\ rev = Istanbul
    /\ lastOp.op = SSTORE /\ lastOp.ran /\ lastOp.static
    /\ lastOp.gasBefore = 2300
    /\ lastOp.err = errWriteProtection


\* ---------------------------------------------------------------------------
\* The reads of the overlay
\* ---------------------------------------------------------------------------

ReadOps == {"GetAccount", "GetBalance", "GetNonce", "GetCode", "GetCodeHash", "GetCodeSize",
            "GetState", "GetCommittedState", "AccountExists", "HasSuicided", "GetRefund"}

\* the accounts read: CB is no account of the backend, S is one, and neither
\* is written by an operation of NextRead; A is read and written
ReadAddrs == {"CB", "S", "A"}

OnlyRead == ReadAddrs \ OverlayAddrs

\* what a read returns
ReadValue(t, r, op, a, k) ==
    CASE op = "GetAccount" ->
             LET Account(o) == IF o.present
                               THEN [nonce |-> o.nonce, balance |-> o.balance, root |-> o.root]
                               ELSE NoObj
             IN Account(getStateObject(t, a))
      [] op = "GetBalance" -> GetBalance(t, a)
      [] op = "GetNonce" -> GetNonce(t, a)
      [] op = "GetCode" -> GetCode(t, a)
      [] op = "GetCodeHash" -> IF empty(t, a) THEN <<>> ELSE <<"CodeHash", GetCode(t, a)>>
      [] op = "GetCodeSize" -> Len(GetCode(t, a))
      [] op = "GetState" -> GetState(t, a, k)
      [] op = "GetCommittedState" -> GetCommittedState(t, a, k)
      [] op = "AccountExists" -> AccountExists(t, r, a)
      [] op = "HasSuicided" -> HasSuicided(t, a)
      [] OTHER -> GetRefund(t)

\* a read that stores the object it looked up, as TouchAccount does
ReadTouching(t, r, op, a, k) == [txn |-> TouchAccount(t, a), value |-> ReadValue(t, r, op, a, k)]

\* a read of the overlay: getStateObject hands out a copy of the entry, or an
\* object built from the backend that it does not insert
Read(t, r, op, a, k) == [txn |-> t, value |-> ReadValue(t, r, op, a, k)]

\* Txn.Commit: one Object for every entry of the overlay, the storage written
\* left out of a deleted one
Commit(t) ==
    { [Address |-> a, Nonce |-> t.objs[a].nonce, Balance |-> t.objs[a].balance,
       Root |-> t.objs[a].root, Code |-> t.objs[a].code, DirtyCode |-> t.objs[a].dirtyCode,
       Deleted |-> t.objs[a].deleted,
       Storage |-> IF t.objs[a].deleted THEN NoStorage ELSE t.objs[a].storage]
      : a \in {b \in Addrs : t.objs[b].present} }

InitRead ==
    /\ InitOverlay
    /\ rev \in {Frontier, Istanbul}

OvRead ==
    /\ nsteps < MaxOverlayOps
    /\ \E op \in ReadOps, a \in ReadAddrs, k \in Keys :
          LET Done(rd) ==
                  /\ txn' = rd.txn
                  /\ lastOp' = [op |-> op, addr |-> a, key |-> k, ret |-> rd.value,
                                before |-> txn, prev |-> Forget(lastOp)]
          IN Done(Read(txn, rev, op, a, k))
    /\ nsteps' = nsteps + 1
    /\ UNCHANGED <<rev, snapshots, msg, frames, result, lastRet, interp>>

NextRead ==
    \/ OvRead
    \/ OvSetStorage
    \/ OvSStore
    \/ OvCreateAccount
    \/ OvSuicide
    \/ OvCleanDelete

SpecRead == InitRead /\ [][NextRead]_vars

Committed(t) == { o.Address : o \in Commit(t) }

Swept(t) == { a \in Addrs : CleanDeleteObjects(t, TRUE).objs[a].deleted }

\* C40: a read (get_account, get_balance, get_nonce, get_code, get_code_hash,
\* get_code_size, get_state, get_committed_state, account_exists,
\* has_suicided, get_refund) leaves the overlay as it was, and an account that
\* is only read has no entry in the overlay, is not among the objects of
\* Commit and is not deleted by the sweep of the empty accounts
C40_ReadsLeaveOverlay ==
    [][ /\ (lastOp'.op \in ReadOps => txn' = txn /\ Commit(txn') = Commit(txn))
        /\ \A a \in OnlyRead :
              /\ ~txn'.objs[a].present
              /\ a \notin Committed(txn')
              /\ a \notin Swept(txn') ]_vars

\* the operations have written an entry, the sweep has run, and then an
\* account that is no account of the backend is read
C40_Witness ==
    /\ lastOp.op \in ReadOps
    /\ lastOp.addr = "CB"
    /\ lastOp.prev.op = "CleanDeleteObjects"
    /\ Committed(txn) # {}

====
